---- MODULE Spec2Model ----
(***************************************************************************)
(* Voice interaction controller of the Unitree G1 assistant.               *)
(*                                                                         *)
(*   core/cortex.py        start_interaction, stop_interaction,            *)
(*                         interaction_loop, process_speech_input          *)
(*   inputs/chatgpt_asr.py set_stop_recording, get_supported_sample_rates, *)
(*                         record_audio, transcribe_speech                 *)
(*                                                                         *)
(* Each interaction_loop thread is a process with a program counter; one   *)
(* action is one stretch of code that touches the shared globals           *)
(* (should_exit, interaction_active, should_stop_recording, the LED) at    *)
(* most once, or one blocking call (device read, remote call, join).       *)
(*                                                                         *)
(* Times are in centiseconds (one 10 ms frame), rates in Hz.               *)
(***************************************************************************)
EXTENDS Integers, Sequences, FiniteSets, TLC

\* ------------------------------------------------------------------ bounds

\* Number of interaction_loop threads the control surface may create.
MaxThreads == 2

\* Speech frames the microphone delivers within one recording, when
\* record_audio is called directly and in a turn of the interaction loop.
MaxSpeech == 2
MaxSpeechTurn == 1

\* Non-speech frames the microphone delivers before the first speech frame.
MaxLead == 2

\* Largest silence_limit (centiseconds) passed to record_audio directly.
MaxSilenceLimit == 2

\* Devices the audio interface lists when find_audio_device is called
\* directly.
MaxDevices == 3

\* Characters of a movement name when execute_movement is called directly.
MaxNameLen == 5

\* Results within one response of the streaming recognizer, and responses
\* within one run of the streaming script.
MaxResults == 2
MaxResponses == 2

\* Request threads of the web control surface that call start_interaction
\* at the same time.
MaxCallers == 2

\* ------------------------------------------------------- program constants

\* record_audio(..., silence_limit=1.0): 1.0 s = 100 centiseconds.
DefaultSilenceLimit == 100

\* test_rates of get_supported_sample_rates.
TestRates == {8000, 11025, 16000, 22050, 24000, 32000, 44100, 48000, 96000}

\* Rates webrtcvad.Vad.is_speech accepts; any other rate makes it raise.
VadRates == {8000, 16000, 32000, 48000}

Threads == 1..MaxThreads
Callers == 1..MaxCallers

None == << >>

\* The temporary WAV file save_audio_to_temp writes the utterance to (frame
\* numbers start at 1, so no buffer equals it).
TempFile == <<0>>

Abs(x) == IF x < 0 THEN -x ELSE x

VARIABLES
  \* core/cortex.py globals
  should_exit, interaction_active, interaction_thread,
  \* inputs/chatgpt_asr.py global
  should_stop_recording,
  \* the colour last written to the LED hardware (both led_controller
  \* objects drive the same LED)
  led,
  \* the control surface: the call in progress and the last call's status
  ctl_pc, ret,
  \* environment: OPENAI_API_KEY present, ELEVENLABS_API_KEY present, the
  \* audio library initialises, an input device present, the rates at which
  \* the device opens, the device's reported defaultSampleRate, the speech
  \* frames the microphone delivers within one recording
  has_key, has_xi_key, has_pa, has_device, dev_rates, dev_default, max_speech,
  \* PROMPT_BASE or GOVERNANCE_BASE is set
  has_prompts,
  \* the devices the audio interface lists, and a call of find_audio_device:
  \* its device_name argument and the index it returned
  devices, device_name, device_index,
  \* a call of execute_movement: its movement_name argument, what it returned
  \* and the action it passed to the arm client
  movement_name, em_ret, arm_cmd,
  \* the streaming backend: the responses the recognizer still has to deliver
  \* and the transcripts printed so far
  responses, emitted,
  \* request threads of the web control surface inside start_interaction:
  \* the line each is at, and what it returned
  start_pc, start_ret,
  \* main(): where the main thread is, and whether an interrupt signal has
  \* been received
  main_pc, signalled,
  \* per interaction_loop thread
  pc, gen, ts_rate,
  preferred_rate, silence_limit, sample_rate, silence_threshold,
  frames, silence_frames, tape, endedBy, audio,
  transcript, reply, chat_response, movement, mv, orphan, exc,
  \* history: a stop was requested since the thread started; the thread has
  \* retried a capture with the cancellation flag set
  cancelReq, spun

ctlVars == <<should_exit, interaction_active, interaction_thread, ctl_pc, ret>>
fadVars == <<devices, device_name, device_index>>
emVars == <<movement_name, em_ret, arm_cmd>>
sigVars == <<main_pc, signalled>>
raceVars == <<start_pc, start_ret>>
gsVars == <<responses, emitted>>
envVars == <<has_key, has_xi_key, has_pa, has_device, dev_rates, dev_default, max_speech,
             has_prompts, fadVars, emVars, gsVars, raceVars, sigVars>>
argVars == <<preferred_rate, silence_limit>>
recVars == <<sample_rate, silence_threshold, frames, silence_frames, tape, endedBy, audio>>
turnVars == <<transcript, reply, chat_response, movement, mv, orphan, exc>>
histVars == <<cancelReq, spun>>
vars == <<should_exit, interaction_active, interaction_thread, should_stop_recording,
          led, ctl_pc, ret, has_key, has_xi_key, has_pa, has_device, dev_rates,
          dev_default, max_speech, pc, gen, ts_rate, preferred_rate, silence_limit, sample_rate,
          silence_threshold, frames, silence_frames, tape, endedBy, audio,
          transcript, reply, chat_response, movement, mv, orphan, exc,
          cancelReq, spun, has_prompts, fadVars, emVars, gsVars, raceVars, sigVars>>

\* ------------------------------------------------------ pure computations

\* get_supported_sample_rates: the test rates at which a probe stream opens.
GetSupportedSampleRates == TestRates \cap dev_rates

\* min(supported_rates) without the key: the lowest supported rate.
ClosestRateNoKey(supported, preferred) ==
  CHOOSE r \in supported : \A q \in supported : r <= q

\* min(supported_rates, key=lambda x: abs(x - preferred_rate)); the list is in
\* ascending order and min() keeps the first of equal keys.
ClosestRate(supported, preferred) ==
  CHOOSE r \in supported :
    \A q \in supported :
      \/ Abs(r - preferred) < Abs(q - preferred)
      \/ Abs(r - preferred) = Abs(q - preferred) /\ r <= q

\* The rate record_audio opens the stream at (lines 112-123).
ChooseRate(preferred, fallback) ==
  LET probed == GetSupportedSampleRates
      supported == IF probed = {} THEN {fallback} ELSE probed
  IN  IF preferred \in supported THEN preferred ELSE ClosestRate(supported, preferred)

\* int(silence_limit * (sample_rate / 160)), silence_limit in centiseconds:
\* floor(limit/100 * rate/160).  Python's float result equals this integer
\* for every limit the model uses (0..28 and 100 centiseconds).
SilenceThreshold(limit, rate) == (limit * rate) \div 16000

\* max(supported_rates) of transcribe_speech (lines 308-315).
MaxOf(S) == CHOOSE r \in S : \A q \in S : q <= r
TsSampleRate ==
  LET probed == GetSupportedSampleRates
  IN  IF probed = {} THEN dev_default ELSE MaxOf(probed)

\* The speech frames of a tape, and its frames whose read completed with the
\* cancellation flag already set.
SpeechCount(tp) == Cardinality({i \in 1..Len(tp) : tp[i].speech})
LateCount(tp) == Cardinality({i \in 1..Len(tp) : tp[i].late})

\* ------------------------------------------------------------ record_audio

\* Lines 93-125: LED green, fresh buffer, rate negotiation, threshold.
RecBegin(t) ==
  /\ pc[t] = "rec_begin"
  /\ led' = "green"
  /\ frames' = [frames EXCEPT ![t] = << >>]
  /\ silence_frames' = [silence_frames EXCEPT ![t] = 0]
  /\ tape' = [tape EXCEPT ![t] = << >>]
  /\ endedBy' = [endedBy EXCEPT ![t] = "none"]
  /\ audio' = [audio EXCEPT ![t] = None]
  /\ LET sr == ChooseRate(preferred_rate[t], dev_default)
     IN  /\ sample_rate' = [sample_rate EXCEPT ![t] = sr]
         /\ silence_threshold' =
              [silence_threshold EXCEPT ![t] = SilenceThreshold(silence_limit[t], sr)]
  /\ pc' = [pc EXCEPT ![t] = "rec_open"]
  /\ UNCHANGED <<ctlVars, envVars, argVars, turnVars, should_stop_recording,
                 gen, ts_rate, histVars>>

\* Lines 127-142: open and start the stream; a failure to open is caught by
\* `except Exception` (line 164), which returns (None, None).
RecOpen(t) ==
  /\ pc[t] = "rec_open"
  /\ IF sample_rate[t] \in dev_rates
       THEN /\ pc' = [pc EXCEPT ![t] = "rec_while"]
            /\ UNCHANGED endedBy
       ELSE /\ pc' = [pc EXCEPT ![t] = "rec_finally"]
            /\ endedBy' = [endedBy EXCEPT ![t] = "exception"]
  /\ UNCHANGED <<ctlVars, envVars, argVars, turnVars, should_stop_recording, led,
                 gen, ts_rate, sample_rate, silence_threshold, frames,
                 silence_frames, tape, audio, histVars>>

\* Line 143: while not should_stop_recording.
RecWhile(t) ==
  /\ pc[t] = "rec_while"
  /\ IF should_stop_recording
       THEN /\ pc' = [pc EXCEPT ![t] = "rec_finally"]
            /\ endedBy' = [endedBy EXCEPT ![t] = "cancel"]
       ELSE /\ pc' = [pc EXCEPT ![t] = "rec_read"]
            /\ UNCHANGED endedBy
  /\ UNCHANGED <<ctlVars, envVars, argVars, turnVars, should_stop_recording, led,
                 gen, ts_rate, sample_rate, silence_threshold, frames,
                 silence_frames, tape, audio, histVars>>

\* Line 145: the blocking stream.read returns one 10 ms frame.  `speech` is
\* what the classifier says of the frame; `late` records that the
\* cancellation flag was already set when the read completed.
RecRead(t) ==
  /\ pc[t] = "rec_read"
  /\ \E speech \in BOOLEAN :
       /\ speech => sample_rate[t] \in VadRates /\ SpeechCount(tape[t]) < max_speech
       /\ (~speech /\ SpeechCount(tape[t]) = 0) => Len(tape[t]) < MaxLead
       /\ tape' = [tape EXCEPT ![t] =
                     Append(@, [speech |-> speech, late |-> should_stop_recording])]
  /\ pc' = [pc EXCEPT ![t] = "rec_chk"]
  /\ UNCHANGED <<ctlVars, envVars, argVars, turnVars, should_stop_recording, led,
                 gen, ts_rate, sample_rate, silence_threshold, frames,
                 silence_frames, endedBy, audio, histVars>>

\* Lines 160-162: stream.read raises IOError; the loop is left by `break`
\* and the frames buffered so far are kept.
RecReadError(t) ==
  /\ pc[t] = "rec_read"
  /\ pc' = [pc EXCEPT ![t] = "rec_finally"]
  /\ endedBy' = [endedBy EXCEPT ![t] = "ioerror"]
  /\ UNCHANGED <<ctlVars, envVars, argVars, turnVars, should_stop_recording, led,
                 gen, ts_rate, sample_rate, silence_threshold, frames,
                 silence_frames, tape, audio, histVars>>

\* Lines 146-158 with the end-of-silence test `>=` instead of `>`.
RecClassifyOffByOne(t) ==
  /\ pc[t] = "rec_chk"
  /\ LET n == Len(tape[t]) IN
     IF should_stop_recording
       THEN /\ pc' = [pc EXCEPT ![t] = "rec_finally"]
            /\ endedBy' = [endedBy EXCEPT ![t] = "cancel"]
            /\ UNCHANGED <<frames, silence_frames>>
     ELSE IF sample_rate[t] \notin VadRates
       THEN /\ pc' = [pc EXCEPT ![t] = "rec_finally"]
            /\ endedBy' = [endedBy EXCEPT ![t] = "exception"]
            /\ UNCHANGED <<frames, silence_frames>>
     ELSE IF tape[t][n].speech
       THEN /\ frames' = [frames EXCEPT ![t] = Append(@, n)]
            /\ silence_frames' = [silence_frames EXCEPT ![t] = 0]
            /\ pc' = [pc EXCEPT ![t] = "rec_while"]
            /\ UNCHANGED endedBy
     ELSE IF frames[t] # << >>
       THEN /\ frames' = [frames EXCEPT ![t] = Append(@, n)]
            /\ silence_frames' = [silence_frames EXCEPT ![t] = @ + 1]
            /\ IF silence_frames[t] + 1 >= silence_threshold[t]
                 THEN /\ pc' = [pc EXCEPT ![t] = "rec_finally"]
                      /\ endedBy' = [endedBy EXCEPT ![t] = "silence"]
                 ELSE /\ pc' = [pc EXCEPT ![t] = "rec_while"]
                      /\ UNCHANGED endedBy
     ELSE /\ pc' = [pc EXCEPT ![t] = "rec_while"]
          /\ UNCHANGED <<frames, silence_frames, endedBy>>
  /\ UNCHANGED <<ctlVars, envVars, argVars, turnVars, should_stop_recording, led,
                 gen, ts_rate, sample_rate, silence_threshold, tape, audio, histVars>>

\* Lines 146-158 without the re-check of the flag after the read (line 146).
RecClassifyNoRecheck(t) ==
  /\ pc[t] = "rec_chk"
  /\ LET n == Len(tape[t]) IN
     IF sample_rate[t] \notin VadRates
       THEN /\ pc' = [pc EXCEPT ![t] = "rec_finally"]
            /\ endedBy' = [endedBy EXCEPT ![t] = "exception"]
            /\ UNCHANGED <<frames, silence_frames>>
     ELSE IF tape[t][n].speech
       THEN /\ frames' = [frames EXCEPT ![t] = Append(@, n)]
            /\ silence_frames' = [silence_frames EXCEPT ![t] = 0]
            /\ pc' = [pc EXCEPT ![t] = "rec_while"]
            /\ UNCHANGED endedBy
     ELSE IF frames[t] # << >>
       THEN /\ frames' = [frames EXCEPT ![t] = Append(@, n)]
            /\ silence_frames' = [silence_frames EXCEPT ![t] = @ + 1]
            /\ IF silence_frames[t] + 1 > silence_threshold[t]
                 THEN /\ pc' = [pc EXCEPT ![t] = "rec_finally"]
                      /\ endedBy' = [endedBy EXCEPT ![t] = "silence"]
                 ELSE /\ pc' = [pc EXCEPT ![t] = "rec_while"]
                      /\ UNCHANGED endedBy
     ELSE /\ pc' = [pc EXCEPT ![t] = "rec_while"]
          /\ UNCHANGED <<frames, silence_frames, endedBy>>
  /\ UNCHANGED <<ctlVars, envVars, argVars, turnVars, should_stop_recording, led,
                 gen, ts_rate, sample_rate, silence_threshold, tape, audio, histVars>>

\* Lines 146-158 with non-speech frames buffered before speech has started.
RecClassifyBufferAll(t) ==
  /\ pc[t] = "rec_chk"
  /\ LET n == Len(tape[t]) IN
     IF should_stop_recording
       THEN /\ pc' = [pc EXCEPT ![t] = "rec_finally"]
            /\ endedBy' = [endedBy EXCEPT ![t] = "cancel"]
            /\ UNCHANGED <<frames, silence_frames>>
     ELSE IF sample_rate[t] \notin VadRates
       THEN /\ pc' = [pc EXCEPT ![t] = "rec_finally"]
            /\ endedBy' = [endedBy EXCEPT ![t] = "exception"]
            /\ UNCHANGED <<frames, silence_frames>>
     ELSE IF tape[t][n].speech
       THEN /\ frames' = [frames EXCEPT ![t] = Append(@, n)]
            /\ silence_frames' = [silence_frames EXCEPT ![t] = 0]
            /\ pc' = [pc EXCEPT ![t] = "rec_while"]
            /\ UNCHANGED endedBy
     ELSE /\ frames' = [frames EXCEPT ![t] = Append(@, n)]
          /\ silence_frames' = [silence_frames EXCEPT ![t] = @ + 1]
          /\ IF silence_frames[t] + 1 > silence_threshold[t]
               THEN /\ pc' = [pc EXCEPT ![t] = "rec_finally"]
                    /\ endedBy' = [endedBy EXCEPT ![t] = "silence"]
               ELSE /\ pc' = [pc EXCEPT ![t] = "rec_while"]
                    /\ UNCHANGED endedBy
  /\ UNCHANGED <<ctlVars, envVars, argVars, turnVars, should_stop_recording, led,
                 gen, ts_rate, sample_rate, silence_threshold, tape, audio, histVars>>

\* Lines 146-158 with a non-speech frame after speech counted but not
\* buffered (line 155).
RecClassifySpeechOnly(t) ==
  /\ pc[t] = "rec_chk"
  /\ LET n == Len(tape[t]) IN
     IF should_stop_recording
       THEN /\ pc' = [pc EXCEPT ![t] = "rec_finally"]
            /\ endedBy' = [endedBy EXCEPT ![t] = "cancel"]
            /\ UNCHANGED <<frames, silence_frames>>
     ELSE IF sample_rate[t] \notin VadRates
       THEN /\ pc' = [pc EXCEPT ![t] = "rec_finally"]
            /\ endedBy' = [endedBy EXCEPT ![t] = "exception"]
            /\ UNCHANGED <<frames, silence_frames>>
     ELSE IF tape[t][n].speech
       THEN /\ frames' = [frames EXCEPT ![t] = Append(@, n)]
            /\ silence_frames' = [silence_frames EXCEPT ![t] = 0]
            /\ pc' = [pc EXCEPT ![t] = "rec_while"]
            /\ UNCHANGED endedBy
     ELSE IF frames[t] # << >>
       THEN /\ UNCHANGED frames
            /\ silence_frames' = [silence_frames EXCEPT ![t] = @ + 1]
            /\ IF silence_frames[t] + 1 > silence_threshold[t]
                 THEN /\ pc' = [pc EXCEPT ![t] = "rec_finally"]
                      /\ endedBy' = [endedBy EXCEPT ![t] = "silence"]
                 ELSE /\ pc' = [pc EXCEPT ![t] = "rec_while"]
                      /\ UNCHANGED endedBy
     ELSE /\ pc' = [pc EXCEPT ![t] = "rec_while"]
          /\ UNCHANGED <<frames, silence_frames, endedBy>>
  /\ UNCHANGED <<ctlVars, envVars, argVars, turnVars, should_stop_recording, led,
                 gen, ts_rate, sample_rate, silence_threshold, tape, audio, histVars>>

\* Lines 146-158 with a speech frame that does not reset silence_frames
\* (line 152).
RecClassifyNoReset(t) ==
  /\ pc[t] = "rec_chk"
  /\ LET n == Len(tape[t]) IN
     IF should_stop_recording
       THEN /\ pc' = [pc EXCEPT ![t] = "rec_finally"]
            /\ endedBy' = [endedBy EXCEPT ![t] = "cancel"]
            /\ UNCHANGED <<frames, silence_frames>>
     ELSE IF sample_rate[t] \notin VadRates
       THEN /\ pc' = [pc EXCEPT ![t] = "rec_finally"]
            /\ endedBy' = [endedBy EXCEPT ![t] = "exception"]
            /\ UNCHANGED <<frames, silence_frames>>
     ELSE IF tape[t][n].speech
       THEN /\ frames' = [frames EXCEPT ![t] = Append(@, n)]
            /\ UNCHANGED silence_frames
            /\ pc' = [pc EXCEPT ![t] = "rec_while"]
            /\ UNCHANGED endedBy
     ELSE IF frames[t] # << >>
       THEN /\ frames' = [frames EXCEPT ![t] = Append(@, n)]
            /\ silence_frames' = [silence_frames EXCEPT ![t] = @ + 1]
            /\ IF silence_frames[t] + 1 > silence_threshold[t]
                 THEN /\ pc' = [pc EXCEPT ![t] = "rec_finally"]
                      /\ endedBy' = [endedBy EXCEPT ![t] = "silence"]
                 ELSE /\ pc' = [pc EXCEPT ![t] = "rec_while"]
                      /\ UNCHANGED endedBy
     ELSE /\ pc' = [pc EXCEPT ![t] = "rec_while"]
          /\ UNCHANGED <<frames, silence_frames, endedBy>>
  /\ UNCHANGED <<ctlVars, envVars, argVars, turnVars, should_stop_recording, led,
                 gen, ts_rate, sample_rate, silence_threshold, tape, audio, histVars>>

\* Lines 146-158: re-check the flag, classify the frame, buffer it, count
\* the silence run.  vad.is_speech raises at a rate it does not accept; the
\* exception is caught at line 164.
RecClassify(t) ==
  /\ pc[t] = "rec_chk"
  /\ LET n == Len(tape[t]) IN
     IF should_stop_recording
       THEN /\ pc' = [pc EXCEPT ![t] = "rec_finally"]
            /\ endedBy' = [endedBy EXCEPT ![t] = "cancel"]
            /\ UNCHANGED <<frames, silence_frames>>
     ELSE IF sample_rate[t] \notin VadRates
       THEN /\ pc' = [pc EXCEPT ![t] = "rec_finally"]
            /\ endedBy' = [endedBy EXCEPT ![t] = "exception"]
            /\ UNCHANGED <<frames, silence_frames>>
     ELSE IF tape[t][n].speech
       THEN /\ frames' = [frames EXCEPT ![t] = Append(@, n)]
            /\ silence_frames' = [silence_frames EXCEPT ![t] = 0]
            /\ pc' = [pc EXCEPT ![t] = "rec_while"]
            /\ UNCHANGED endedBy
     ELSE IF frames[t] # << >>
       THEN /\ frames' = [frames EXCEPT ![t] = Append(@, n)]
            /\ silence_frames' = [silence_frames EXCEPT ![t] = @ + 1]
            /\ IF silence_frames[t] + 1 > silence_threshold[t]
                 THEN /\ pc' = [pc EXCEPT ![t] = "rec_finally"]
                      /\ endedBy' = [endedBy EXCEPT ![t] = "silence"]
                 ELSE /\ pc' = [pc EXCEPT ![t] = "rec_while"]
                      /\ UNCHANGED endedBy
     ELSE /\ pc' = [pc EXCEPT ![t] = "rec_while"]
          /\ UNCHANGED <<frames, silence_frames, endedBy>>
  /\ UNCHANGED <<ctlVars, envVars, argVars, turnVars, should_stop_recording, led,
                 gen, ts_rate, sample_rate, silence_threshold, tape, audio, histVars>>

\* Lines 164-184: the finally block sets the LED back to cyan; the result is
\* (None, None) after an exception or with an empty buffer, else the joined
\* frames.
RecFinish(t) ==
  /\ pc[t] = "rec_finally"
  /\ led' = "cyan"
  /\ audio' = [audio EXCEPT ![t] =
                 IF endedBy[t] = "exception" \/ frames[t] = << >>
                   THEN None ELSE frames[t]]
  /\ pc' = [pc EXCEPT ![t] = "rec_returned"]
  /\ UNCHANGED <<ctlVars, envVars, argVars, turnVars, should_stop_recording,
                 gen, ts_rate, sample_rate, silence_threshold, frames,
                 silence_frames, tape, endedBy, histVars>>

\* set_stop_recording (lines 23-26) called on its own.
SetStopRecording ==
  /\ ~should_stop_recording
  /\ should_stop_recording' = TRUE
  /\ led' = "cyan"
  /\ UNCHANGED <<ctlVars, envVars, argVars, recVars, turnVars, pc, gen, ts_rate, histVars>>

\* ------------------------------------------------------- find_audio_device

\* A device name is a string: a sequence of characters.  str.lower() and
\* str.upper() on one character.
UpperCase ==
  <<"A", "B", "C", "D", "E", "F", "G", "H", "I", "J", "K", "L", "M",
    "N", "O", "P", "Q", "R", "S", "T", "U", "V", "W", "X", "Y", "Z">>
LowerCase ==
  <<"a", "b", "c", "d", "e", "f", "g", "h", "i", "j", "k", "l", "m",
    "n", "o", "p", "q", "r", "s", "t", "u", "v", "w", "x", "y", "z">>
ToLower(c) ==
  IF \E i \in 1..26 : UpperCase[i] = c
    THEN LowerCase[CHOOSE i \in 1..26 : UpperCase[i] = c]
    ELSE c
ToUpper(c) ==
  IF \E i \in 1..26 : LowerCase[i] = c
    THEN UpperCase[CHOOSE i \in 1..26 : LowerCase[i] = c]
    ELSE c
Lower(s) == [i \in 1..Len(s) |-> ToLower(s[i])]

\* pat in s.
Contains(s, pat) ==
  \E k \in 0..(Len(s) - Len(pat)) : SubSeq(s, k + 1, k + Len(pat)) = pat

\* None as a device index, and the index before find_audio_device is called.
NoDevice == -1
NotCalled == -2

\* Lines 250-258 with the name tested before maxInputChannels.
RECURSIVE FadLoopNameFirst(_, _, _, _)
FadLoopNameFirst(devs, name, i, default_device) ==
  IF i >= Len(devs)
    THEN default_device
    ELSE LET dev_info == devs[i + 1]
         IN  IF name # << >> /\ Contains(Lower(dev_info.name), Lower(name))
               THEN i
               ELSE FadLoopNameFirst(devs, name, i + 1,
                      IF dev_info.maxInputChannels > 0 /\ default_device = NoDevice
                        THEN i ELSE default_device)

FindAudioDeviceNameFirst(devs, name) == FadLoopNameFirst(devs, name, 0, NoDevice)

\* Lines 250-258: the for loop from index i on, with the default_device
\* found so far.  Indices are Python's (0-based).
RECURSIVE FadLoop(_, _, _, _)
FadLoop(devs, name, i, default_device) ==
  IF i >= Len(devs)
    THEN default_device
    ELSE LET dev_info == devs[i + 1]
         IN  IF dev_info.maxInputChannels > 0
               THEN IF name # << >> /\ Contains(Lower(dev_info.name), Lower(name))
                      THEN i
                      ELSE FadLoop(devs, name, i + 1,
                             IF default_device = NoDevice THEN i ELSE default_device)
               ELSE FadLoop(devs, name, i + 1, default_device)

\* Lines 247-258: find_audio_device(audio_interface, device_name); a
\* device_name of None is the empty sequence.
FindAudioDevice(devs, name) == FadLoop(devs, name, 0, NoDevice)

\* The argument of the call of line 298, and device names.
DjiMic == <<"D", "J", "I", " ", "M", "I", "C">>
DjiMicLower == <<"d", "j", "i", " ", "m", "i", "c">>
DjiMic2 == DjiMic \o <<" ", "2">>
MyDjiMic == <<"m", "y", " ">> \o DjiMicLower
BuiltInMic == <<"B", "u", "i", "l", "t", "-", "i", "n", " ", "M", "i", "c">>
BuiltInOutput == <<"B", "u", "i", "l", "t", "-", "i", "n", " ", "O", "u", "t">>

\* The devices and device lists find_audio_device is called with.
DeviceNames == {DjiMic2, MyDjiMic, BuiltInMic, BuiltInOutput}
DeviceInfos == [name : DeviceNames, maxInputChannels : {0, 2}]
DeviceLists == UNION {[1..n -> DeviceInfos] : n \in 0..MaxDevices}
DeviceNameArgs == {None, DjiMic, DjiMicLower}

\* The device list of a controller run with and without an input device.
OneMic == <<[name |-> DjiMic2, maxInputChannels |-> 2]>>
NoMic == <<[name |-> BuiltInOutput, maxInputChannels |-> 0]>>

\* --------------------------------------------- record_audio called directly

\* Preferred rates and devices for direct calls of record_audio.
PreferredRates == {8000, 16000, 48000}
RecDevices == {{8000}, {16000}, {8000, 16000, 44100}, {44100}, {}}
DevDefaults == {48000}

InitCommon ==
  /\ should_exit = FALSE
  /\ interaction_active = FALSE
  /\ interaction_thread = 0
  /\ should_stop_recording = FALSE
  /\ led = "cyan"
  /\ ctl_pc = "idle"
  /\ ret = "none"
  /\ gen = [t \in Threads |-> "none"]
  /\ ts_rate = [t \in Threads |-> 0]
  /\ sample_rate = [t \in Threads |-> 0]
  /\ silence_threshold = [t \in Threads |-> 0]
  /\ frames = [t \in Threads |-> << >>]
  /\ silence_frames = [t \in Threads |-> 0]
  /\ tape = [t \in Threads |-> << >>]
  /\ endedBy = [t \in Threads |-> "none"]
  /\ audio = [t \in Threads |-> None]
  /\ transcript = [t \in Threads |-> None]
  /\ reply = [t \in Threads |-> None]
  /\ chat_response = [t \in Threads |-> None]
  /\ movement = [t \in Threads |-> None]
  /\ exc = [t \in Threads |-> "none"]
  /\ mv = [t \in Threads |-> "none"]
  /\ orphan = [t \in Threads |-> FALSE]
  /\ cancelReq = [t \in Threads |-> FALSE]
  /\ spun = [t \in Threads |-> FALSE]
  /\ em_ret = "none"
  /\ arm_cmd = None

InitRec ==
  /\ InitCommon
  /\ main_pc = "loop"
  /\ signalled = FALSE
  /\ start_pc = [c \in Callers |-> "none"]
  /\ start_ret = [c \in Callers |-> "none"]
  /\ responses = << >>
  /\ emitted = << >>
  /\ has_key = TRUE
  /\ has_xi_key = TRUE
  /\ has_pa = TRUE
  /\ has_prompts = FALSE
  /\ has_device = TRUE
  /\ devices = OneMic
  /\ device_name = DjiMic
  /\ device_index = FindAudioDevice(devices, device_name)
  /\ movement_name = None
  /\ dev_rates \in RecDevices
  /\ dev_default \in DevDefaults
  /\ max_speech = MaxSpeech
  /\ \E p \in PreferredRates : preferred_rate = [t \in Threads |-> IF t = 1 THEN p ELSE 0]
  /\ \E l \in 0..MaxSilenceLimit : silence_limit = [t \in Threads |-> IF t = 1 THEN l ELSE 0]
  /\ pc = [t \in Threads |-> IF t = 1 THEN "rec_begin" ELSE "none"]

NextRec ==
  \/ RecBegin(1)
  \/ RecOpen(1)
  \/ RecWhile(1)
  \/ RecRead(1)
  \/ RecReadError(1)
  \/ RecClassify(1)
  \/ RecFinish(1)
  \/ SetStopRecording

SpecRec == InitRec /\ [][NextRec]_vars

\* ---------------------------------------------------------- transcribe_audio

\* A text is a string: a sequence of characters.  Nl is the newline.
Nl == "newline"
Whitespace == {" ", Nl}

\* str.strip().
Strip(s) ==
  LET inked == {i \in 1..Len(s) : s[i] \notin Whitespace}
  IN  IF inked = {} THEN << >>
      ELSE SubSeq(s, CHOOSE i \in inked : \A j \in inked : i <= j,
                     CHOOSE i \in inked : \A j \in inked : j <= i)

\* What the transcription service returns for an utterance (line 208): a
\* text, a whitespace-only text, the empty text.
Hello == <<"h", "e", "l", "l", "o">>
Transcriptions == {Hello \o <<Nl>>, <<" ", Nl>>, << >>}

\* ------------------------------------------------------- transcribe_speech

\* Lines 282-326, run by the first next() of the generator: a missing key or
\* a missing device turns the LED red and yields (None, None); otherwise the
\* highest supported rate is chosen and record_audio is called with it and
\* the default silence_limit.  pyaudio.PyAudio() (line 294) is outside every
\* try of the generator: if it raises, the exception reaches
\* interaction_loop.
TsInit(t) ==
  /\ pc[t] = "ts_init"
  /\ IF ~has_key
       THEN /\ led' = "red"
            /\ gen' = [gen EXCEPT ![t] = "nokey"]
            /\ transcript' = [transcript EXCEPT ![t] = None]
            /\ pc' = [pc EXCEPT ![t] = "loop_body"]
            /\ UNCHANGED <<ts_rate, argVars, exc>>
     ELSE IF ~has_pa
       THEN /\ gen' = [gen EXCEPT ![t] = "none"]
            /\ exc' = [exc EXCEPT ![t] = "Exception"]
            /\ pc' = [pc EXCEPT ![t] = "loop_except"]
            /\ UNCHANGED <<led, ts_rate, argVars, transcript>>
     ELSE IF ~has_device
       THEN /\ led' = "red"
            /\ gen' = [gen EXCEPT ![t] = "nodev"]
            /\ transcript' = [transcript EXCEPT ![t] = None]
            /\ pc' = [pc EXCEPT ![t] = "loop_body"]
            /\ UNCHANGED <<ts_rate, argVars, exc>>
     ELSE /\ ts_rate' = [ts_rate EXCEPT ![t] = TsSampleRate]
          /\ preferred_rate' = [preferred_rate EXCEPT ![t] = TsSampleRate]
          /\ silence_limit' = [silence_limit EXCEPT ![t] = DefaultSilenceLimit]
          /\ gen' = [gen EXCEPT ![t] = "turn"]
          /\ pc' = [pc EXCEPT ![t] = "rec_begin"]
          /\ UNCHANGED <<led, transcript, exc>>
  /\ UNCHANGED <<ctlVars, envVars, recVars, should_stop_recording,
                 reply, chat_response, movement, mv, orphan, histVars>>

\* Lines 328-341, after record_audio has returned: no audio means `continue`
\* (record again); otherwise the audio is saved to a temporary file, the LED
\* turns yellow and the transcription call is made.  If save_audio_to_temp
\* raises (the file cannot be written), the handler of line 373 turns the
\* LED red and sleeps.  record_audio's locals are gone.
TsAfterRecord(t) ==
  /\ pc[t] = "rec_returned"
  /\ frames' = [frames EXCEPT ![t] = << >>]
  /\ silence_frames' = [silence_frames EXCEPT ![t] = 0]
  /\ tape' = [tape EXCEPT ![t] = << >>]
  /\ IF audio[t] = None
       THEN /\ pc' = [pc EXCEPT ![t] = "rec_begin"]
            /\ spun' = [spun EXCEPT ![t] = @ \/ should_stop_recording]
            /\ UNCHANGED <<led, audio, endedBy>>
       ELSE \/ /\ led' = "yellow"
               /\ audio' = [audio EXCEPT ![t] = TempFile]
               /\ pc' = [pc EXCEPT ![t] = "transcribing"]
               /\ UNCHANGED <<spun, endedBy>>
            \/ /\ led' = "red"
               /\ audio' = [audio EXCEPT ![t] = None]
               /\ endedBy' = [endedBy EXCEPT ![t] = "none"]
               /\ pc' = [pc EXCEPT ![t] = "ts_error"]
               /\ UNCHANGED spun
  /\ UNCHANGED <<ctlVars, envVars, argVars, turnVars, should_stop_recording, gen,
                 ts_rate, sample_rate, silence_threshold, cancelReq>>

\* Lines 377-379: time.sleep(1) has shown the error signal; the LED returns
\* to cyan and the `while True` loop records again.
TsError(t) ==
  /\ pc[t] = "ts_error"
  /\ led' = "cyan"
  /\ pc' = [pc EXCEPT ![t] = "rec_begin"]
  /\ UNCHANGED <<ctlVars, envVars, argVars, recVars, turnVars,
                 should_stop_recording, gen, ts_rate, histVars>>

\* Lines 345-362 with the transcript handed over without suspending: the
\* next recording starts while the turn of this transcript is pending.
TsTranscribeEager(t) ==
  /\ pc[t] = "transcribing"
  /\ \E text \in {Hello, None} :
       /\ transcript' = [transcript EXCEPT ![t] = text]
       /\ led' = "cyan"
       /\ pc' = [pc EXCEPT ![t] = "rec_begin"]
  /\ audio' = [audio EXCEPT ![t] = None]
  /\ endedBy' = [endedBy EXCEPT ![t] = "none"]
  /\ UNCHANGED <<ctlVars, envVars, argVars, should_stop_recording, gen, ts_rate,
                 sample_rate, silence_threshold, frames, silence_frames, tape,
                 reply, chat_response, movement, mv, orphan, exc, histVars>>

\* Lines 345-368 with the temporary file removed only after a transcript
\* was handed over: without one the file stays.
TsReturnKeepFile(t, tr) ==
  /\ transcript' = [transcript EXCEPT ![t] = tr]
  /\ IF tr # None
       THEN /\ pc' = [pc EXCEPT ![t] = "loop_body"]
            /\ UNCHANGED led
       ELSE /\ led' = "cyan"
            /\ pc' = [pc EXCEPT ![t] = "rec_begin"]
  /\ UNCHANGED audio
  /\ endedBy' = [endedBy EXCEPT ![t] = "none"]

\* Lines 345-368: transcribe_audio has returned tr as its transcript.  A
\* non-empty transcript is yielded with the LED still yellow and the
\* temporary file still in place; None and the empty text are falsy: the
\* finally block turns the LED cyan and removes the temporary file, and the
\* loop records again.  Nothing in the try block of lines 338-350 raises an
\* Exception, so the handler of lines 352-357 does not run.
TsReturn(t, tr) ==
  /\ transcript' = [transcript EXCEPT ![t] = tr]
  /\ IF tr # None
       THEN /\ pc' = [pc EXCEPT ![t] = "loop_body"]
            /\ UNCHANGED <<led, audio>>
       ELSE /\ led' = "cyan"
            /\ audio' = [audio EXCEPT ![t] = None]
            /\ pc' = [pc EXCEPT ![t] = "rec_begin"]
  /\ endedBy' = [endedBy EXCEPT ![t] = "none"]

\* Lines 207-241 of transcribe_audio: the transcription call returns a text
\* or raises.  An empty text returns (None, None), as does an exception
\* (line 243); otherwise the text is stripped and, if a prompt is
\* configured, the chat model is called with it (line 229).
TsTranscribe(t) ==
  /\ pc[t] = "transcribing"
  /\ \/ \E raw \in Transcriptions :
          IF raw # << >> /\ has_prompts
            THEN /\ transcript' = [transcript EXCEPT ![t] = Strip(raw)]
                 /\ pc' = [pc EXCEPT ![t] = "asr_chat"]
                 /\ UNCHANGED <<led, audio, endedBy>>
            ELSE TsReturn(t, Strip(raw))
     \/ TsReturn(t, None)
  /\ UNCHANGED <<ctlVars, envVars, argVars, should_stop_recording, gen, ts_rate,
                 sample_rate, silence_threshold, frames, silence_frames, tape,
                 reply, chat_response, movement, mv, orphan, exc, histVars>>

\* Lines 229-241 of transcribe_audio: the chat model returns and the
\* stripped transcript is returned with its response, or the call raises
\* and (None, None) is returned (line 243).
TsAsrChat(t) ==
  /\ pc[t] = "asr_chat"
  /\ \/ TsReturn(t, transcript[t])
     \/ TsReturn(t, None)
  /\ UNCHANGED <<ctlVars, envVars, argVars, should_stop_recording, gen, ts_rate,
                 sample_rate, silence_threshold, frames, silence_frames, tape,
                 reply, chat_response, movement, mv, orphan, exc, histVars>>

\* -------------------------------------------------------- interaction_loop

\* Line 101: while not should_exit and interaction_active; then line 103
\* creates the generator.
LoopTest(t) ==
  /\ pc[t] = "loop_test"
  /\ IF ~should_exit /\ interaction_active
       THEN pc' = [pc EXCEPT ![t] = "ts_init"]
       ELSE pc' = [pc EXCEPT ![t] = "done"]
  /\ UNCHANGED <<ctlVars, envVars, argVars, recVars, turnVars, should_stop_recording,
                 led, gen, ts_rate, histVars>>

\* Line 104: if transcript and interaction_active.
LoopBody(t) ==
  /\ pc[t] = "loop_body"
  /\ IF transcript[t] # None /\ interaction_active
       THEN pc' = [pc EXCEPT ![t] = "psi_check"]
       ELSE pc' = [pc EXCEPT ![t] = "loop_brk"]
  /\ UNCHANGED <<ctlVars, envVars, argVars, recVars, turnVars, should_stop_recording,
                 led, gen, ts_rate, histVars>>

\* Lines 108-109, then the generator is either dropped (break: its pending
\* finally blocks run, lines 359-362 and 381-385) or resumed (next(): lines
\* 359-362 and the next `while True` round, or the return after a yield of
\* (None, None)).  The finally block of lines 359-368 also removes the
\* temporary file of the turn.
LoopBreak(t) ==
  /\ pc[t] = "loop_brk"
  /\ IF should_exit \/ ~interaction_active
       THEN /\ pc' = [pc EXCEPT ![t] = "loop_test"]
            /\ led' = IF gen[t] = "nokey" THEN led ELSE "cyan"
       ELSE IF gen[t] = "turn"
         THEN /\ pc' = [pc EXCEPT ![t] = "rec_begin"]
              /\ led' = "cyan"
         ELSE /\ pc' = [pc EXCEPT ![t] = "loop_test"]
              /\ led' = IF gen[t] = "nokey" THEN led ELSE "cyan"
  /\ transcript' = [transcript EXCEPT ![t] = None]
  /\ audio' = [audio EXCEPT ![t] = None]
  /\ UNCHANGED <<ctlVars, envVars, argVars, should_stop_recording, gen, ts_rate,
                 sample_rate, silence_threshold, frames, silence_frames, tape,
                 endedBy, reply, chat_response, movement, mv, orphan, exc, histVars>>

\* ---------------------------------------------------- process_speech_input

\* A reply is a string: a sequence of symbols.  A symbol is one character,
\* except that the word json of the fence marker and the two key names are
\* one symbol each; offsets count symbols.  Q is the double quote, Bt the
\* backtick.
Q == "dquote"
Bt == "backtick"
FenceOpen == <<Bt, Bt, Bt, "json">>
FenceClose == <<Bt, Bt, Bt>>

\* The default of response_data.get (the chat-response key) (line 145).
NoContent == <<"No response content found">>

\* str.find(pat, start) with Python's 0-based offsets: the lowest offset
\* >= start at which pat occurs, -1 if there is none.
Find(s, pat, start) ==
  LET hits == {i \in start..(Len(s) - Len(pat)) :
                 SubSeq(s, i + 1, i + Len(pat)) = pat}
  IN  IF hits = {} THEN -1 ELSE CHOOSE i \in hits : \A j \in hits : i <= j

\* s[a:b] for a >= 0: a negative b counts from the end.
Slice(s, a, b) ==
  LET e == IF b < 0 THEN Len(s) + b ELSE IF b > Len(s) THEN Len(s) ELSE b
  IN  IF a >= e THEN << >> ELSE SubSeq(s, a + 1, e)

\* JSON texts: a string literal, and the objects the reasoning service is
\* prompted for.  String contents carry no quote (the model has no escapes).
JsonString(x) == <<Q>> \o x \o <<Q>>
JsonRecord(t, m) ==
  <<"{">> \o JsonString(<<"chat-response">>) \o <<":">> \o JsonString(t) \o <<",">>
          \o JsonString(<<"movement">>) \o <<":">> \o JsonString(m) \o <<"}">>
JsonChatOnly(t) ==
  <<"{">> \o JsonString(<<"chat-response">>) \o <<":">> \o JsonString(t) \o <<"}">>
JsonEmptyObject == <<"{", "}">>

\* The string literal that starts at offset a of s: its content and the
\* offset after its closing quote; ok is false if there is none.
ScanString(s, a) ==
  LET close == Find(s, <<Q>>, a + 1)
  IN  IF a < Len(s) /\ s[a + 1] = Q /\ close # -1
        THEN [ok |-> TRUE, val |-> Slice(s, a + 1, close), next |-> close + 1]
        ELSE [ok |-> FALSE, val |-> << >>, next |-> a]

\* json.loads: surrounding whitespace is skipped; the result is a dict (the
\* keys present and their values), another JSON value, or JSONDecodeError.
JsonError == [kind |-> "JSONDecodeError", keys |-> {}, chat |-> << >>, move |-> << >>]
JsonLoads(str) ==
  LET s == Strip(str)
      k1 == ScanString(s, 1)
      v1 == ScanString(s, k1.next + 1)
      k2 == ScanString(s, v1.next + 1)
      v2 == ScanString(s, k2.next + 1)
      whole == ScanString(s, 0)
  IN  IF s = JsonEmptyObject
        THEN [kind |-> "dict", keys |-> {}, chat |-> << >>, move |-> << >>]
      ELSE IF whole.ok /\ whole.next = Len(s)
        THEN [kind |-> "str", keys |-> {}, chat |-> << >>, move |-> << >>]
      ELSE IF Len(s) = 0 \/ s[1] # "{" \/ ~k1.ok \/ k1.val # <<"chat-response">>
        THEN JsonError
      ELSE IF Slice(s, k1.next, k1.next + 1) # <<":">> \/ ~v1.ok
        THEN JsonError
      ELSE IF Slice(s, v1.next, Len(s)) = <<"}">>
        THEN [kind |-> "dict", keys |-> {"chat-response"}, chat |-> v1.val, move |-> << >>]
      ELSE IF Slice(s, v1.next, v1.next + 1) # <<",">> \/ ~k2.ok \/ k2.val # <<"movement">>
        THEN JsonError
      ELSE IF Slice(s, k2.next, k2.next + 1) # <<":">> \/ ~v2.ok
        THEN JsonError
      ELSE IF Slice(s, v2.next, Len(s)) = <<"}">>
        THEN [kind |-> "dict", keys |-> {"chat-response", "movement"},
              chat |-> v1.val, move |-> v2.val]
      ELSE JsonError

\* Lines 134-141: the text handed to json.loads.
JsonStr(ai_response) ==
  IF Find(ai_response, FenceOpen, 0) # -1
    THEN LET json_start == Find(ai_response, FenceOpen, 0) + Len(FenceOpen)
             json_end == Find(ai_response, FenceClose, json_start)
         IN  Strip(Slice(ai_response, json_start, json_end))
    ELSE ai_response

\* Lines 134-146: the decoded reply, or the exception the decoding raises
\* (.get on a value that is not a dict raises AttributeError).
DecodeReply(ai_response) ==
  LET response_data == JsonLoads(JsonStr(ai_response))
  IN  IF response_data.kind = "JSONDecodeError"
        THEN [exc |-> "JSONDecodeError", chat_response |-> None, movement |-> None]
      ELSE IF response_data.kind # "dict"
        THEN [exc |-> "AttributeError", chat_response |-> None, movement |-> None]
      ELSE [exc |-> "none",
            chat_response |-> IF "chat-response" \in response_data.keys
                                THEN response_data.chat ELSE NoContent,
            movement |-> IF "movement" \in response_data.keys
                           THEN response_data.move ELSE None]

\* A record wrapped in a delimited block.
Wrapped(x) == FenceOpen \o <<Nl>> \o x \o <<Nl>> \o FenceClose

\* Spoken texts and actions of the replies, and the replies the reasoning
\* service gives: two records, unwrapped and wrapped, one of them with a
\* fence inside its spoken text; a record without action; raw text; a delimited
\* block with an unparsable interior; a JSON value that is not an object;
\* the empty string.
Hi == <<"h", "i">>
Wave == <<"w">>
Fenced == <<"h", Bt, Bt, Bt, "i">>
RawText == <<"h", "i", " ", "h", "i">>
Replies ==
  { JsonRecord(Hi, Wave), Wrapped(JsonRecord(Hi, Wave)),
    JsonRecord(Fenced, Wave), Wrapped(JsonRecord(Fenced, Wave)),
    JsonChatOnly(Hi),
    RawText,
    Wrapped(RawText),
    JsonString(Hi),
    << >> }

\* process_speech_input returns: its locals are gone and the actuator thread
\* of the turn, if it still runs, is left behind.
LeaveTurn(t) ==
  /\ mv' = [mv EXCEPT ![t] = "none"]
  /\ orphan' = [orphan EXCEPT ![t] = @ \/ mv[t] = "running"]
  /\ reply' = [reply EXCEPT ![t] = None]
  /\ chat_response' = [chat_response EXCEPT ![t] = None]
  /\ movement' = [movement EXCEPT ![t] = None]
  /\ exc' = [exc EXCEPT ![t] = "none"]
  /\ pc' = [pc EXCEPT ![t] = "loop_brk"]

\* An exception is raised inside the try blocks of lines 126-178.
Raise(t, e) ==
  /\ exc' = [exc EXCEPT ![t] = e]
  /\ pc' = [pc EXCEPT ![t] = "psi_except"]

\* Lines 121-122: if not text or should_exit: return.
PsiCheck(t) ==
  /\ pc[t] = "psi_check"
  /\ IF should_exit
       THEN pc' = [pc EXCEPT ![t] = "loop_brk"]
       ELSE pc' = [pc EXCEPT ![t] = "dispatch"]
  /\ UNCHANGED <<ctlVars, envVars, argVars, recVars, turnVars, should_stop_recording,
                 led, gen, ts_rate, histVars>>

\* Line 129: get_ai_response returns a reply or raises.
PsiDispatch(t) ==
  /\ pc[t] = "dispatch"
  /\ \/ \E r \in Replies :
          /\ reply' = [reply EXCEPT ![t] = r]
          /\ pc' = [pc EXCEPT ![t] = "decode"]
          /\ UNCHANGED exc
     \/ /\ Raise(t, "Exception")
        /\ UNCHANGED reply
  /\ UNCHANGED <<ctlVars, envVars, argVars, recVars, should_stop_recording, led,
                 gen, ts_rate, transcript, chat_response, movement, mv, orphan,
                 histVars>>

\* The decoding of every reply of the reasoning service, computed once.
DecodedReplies == [r \in Replies |-> DecodeReply(r)]

\* Lines 133-161: the reply is decoded, the speech client is created
\* (ElevenLabsClient raises ValueError without ELEVENLABS_API_KEY) and then
\* the actuator thread is started if the movement is truthy.
PsiDecode(t) ==
  /\ pc[t] = "decode"
  /\ LET d == DecodedReplies[reply[t]] IN
     IF d.exc # "none"
       THEN /\ Raise(t, d.exc)
            /\ UNCHANGED <<chat_response, movement, mv>>
     ELSE IF ~has_xi_key
       THEN /\ chat_response' = [chat_response EXCEPT ![t] = d.chat_response]
            /\ movement' = [movement EXCEPT ![t] = d.movement]
            /\ Raise(t, "ValueError")
            /\ UNCHANGED mv
     ELSE /\ chat_response' = [chat_response EXCEPT ![t] = d.chat_response]
          /\ movement' = [movement EXCEPT ![t] = d.movement]
          /\ mv' = [mv EXCEPT ![t] = IF d.movement # None THEN "running" ELSE "none"]
          /\ pc' = [pc EXCEPT ![t] = "tts"]
          /\ UNCHANGED exc
  /\ UNCHANGED <<ctlVars, envVars, argVars, recVars, should_stop_recording, led,
                 gen, ts_rate, transcript, reply, orphan, histVars>>

\* Lines 165-169: text_to_speech returns or raises.
PsiTts(t) ==
  /\ pc[t] = "tts"
  /\ \/ /\ pc' = [pc EXCEPT ![t] = "play"]
        /\ UNCHANGED exc
     \/ Raise(t, "Exception")
  /\ UNCHANGED <<ctlVars, envVars, argVars, recVars, should_stop_recording, led,
                 gen, ts_rate, transcript, reply, chat_response, movement, mv,
                 orphan, histVars>>

\* Line 172: play_audio returns or raises.
PsiPlay(t) ==
  /\ pc[t] = "play"
  /\ \/ /\ pc' = [pc EXCEPT ![t] = "join"]
        /\ UNCHANGED exc
     \/ Raise(t, "Exception")
  /\ UNCHANGED <<ctlVars, envVars, argVars, recVars, should_stop_recording, led,
                 gen, ts_rate, transcript, reply, chat_response, movement, mv,
                 orphan, histVars>>

\* Lines 176-177 without the join: the turn returns as soon as playback has.
PsiJoinNoWait(t) ==
  /\ pc[t] = "join"
  /\ LeaveTurn(t)
  /\ UNCHANGED <<ctlVars, envVars, argVars, recVars, should_stop_recording, led,
                 gen, ts_rate, transcript, histVars>>

\* Lines 176-177: join the actuator thread if it is still alive, then return.
PsiJoin(t) ==
  /\ pc[t] = "join"
  /\ mv[t] # "running"
  /\ LeaveTurn(t)
  /\ UNCHANGED <<ctlVars, envVars, argVars, recVars, should_stop_recording, led,
                 gen, ts_rate, transcript, histVars>>

\* Lines 179-182 without the outer handler: only JSONDecodeError is caught,
\* any other exception leaves process_speech_input.
PsiExceptJsonOnly(t) ==
  /\ pc[t] = "psi_except"
  /\ IF exc[t] = "JSONDecodeError"
       THEN LeaveTurn(t)
       ELSE /\ mv' = [mv EXCEPT ![t] = "none"]
            /\ orphan' = [orphan EXCEPT ![t] = @ \/ mv[t] = "running"]
            /\ reply' = [reply EXCEPT ![t] = None]
            /\ chat_response' = [chat_response EXCEPT ![t] = None]
            /\ movement' = [movement EXCEPT ![t] = None]
            /\ pc' = [pc EXCEPT ![t] = "loop_except"]
            /\ UNCHANGED exc
  /\ UNCHANGED <<ctlVars, envVars, argVars, recVars, should_stop_recording, led,
                 gen, ts_rate, transcript, histVars>>

\* Lines 179-182 with handlers that treat the failure as fatal: they set
\* should_exit, so that the loop ends after the turn.
PsiExceptFatal(t) ==
  /\ pc[t] = "psi_except"
  /\ LeaveTurn(t)
  /\ should_exit' = TRUE
  /\ UNCHANGED <<interaction_active, interaction_thread, ctl_pc, ret>>
  /\ UNCHANGED <<envVars, argVars, recVars, should_stop_recording, led,
                 gen, ts_rate, transcript, histVars>>

\* Lines 179-182: JSONDecodeError is caught by the inner handler, every
\* other Exception by the outer one; both print and return.
PsiExcept(t) ==
  /\ pc[t] = "psi_except"
  /\ IF exc[t] = "JSONDecodeError"
       THEN LeaveTurn(t)
       ELSE LeaveTurn(t)
  /\ UNCHANGED <<ctlVars, envVars, argVars, recVars, should_stop_recording, led,
                 gen, ts_rate, transcript, histVars>>

\* Lines 111-115: an exception reached interaction_loop.  The generator of
\* the for statement is dropped (its pending finally blocks turn the LED
\* cyan if it was suspended at a yield), the loop sleeps and tests again.
LoopExcept(t) ==
  /\ pc[t] = "loop_except"
  /\ led' = IF gen[t] = "turn" THEN "cyan" ELSE led
  /\ transcript' = [transcript EXCEPT ![t] = None]
  /\ exc' = [exc EXCEPT ![t] = "none"]
  /\ pc' = [pc EXCEPT ![t] = "loop_test"]
  /\ UNCHANGED <<ctlVars, envVars, argVars, recVars, should_stop_recording, gen,
                 ts_rate, reply, chat_response, movement, mv, orphan, histVars>>

\* The actuator thread of the current turn returns from execute_movement.
MvFinish(t) ==
  /\ mv[t] = "running"
  /\ mv' = [mv EXCEPT ![t] = "done"]
  /\ UNCHANGED <<ctlVars, envVars, argVars, recVars, should_stop_recording, led, pc,
                 gen, ts_rate, transcript, reply, chat_response, movement, orphan,
                 exc, histVars>>

\* The last actuator thread left behind by earlier turns returns.
OrphanFinish(t) ==
  /\ orphan[t]
  /\ orphan' = [orphan EXCEPT ![t] = FALSE]
  /\ UNCHANGED <<ctlVars, envVars, argVars, recVars, should_stop_recording, led, pc,
                 gen, ts_rate, transcript, reply, chat_response, movement, mv,
                 exc, histVars>>

\* -------------------------------------------------------- control surface

Alive(t) == pc[t] \notin {"none", "done"}

\* Lines 40-53 without the test of interaction_active.
StartInteractionNoGuard ==
  /\ ctl_pc = "idle"
  /\ \E t \in Threads :
       /\ pc[t] = "none"
       /\ \A u \in Threads : u < t => pc[u] # "none"
       /\ interaction_active' = TRUE
       /\ interaction_thread' = t
       /\ pc' = [pc EXCEPT ![t] = "loop_test"]
       /\ ret' = "started"
  /\ UNCHANGED <<envVars, argVars, recVars, turnVars, should_exit, should_stop_recording,
                 led, ctl_pc, gen, ts_rate, histVars>>

\* Lines 40-53: start_interaction.
StartInteraction ==
  /\ ctl_pc = "idle"
  /\ IF interaction_active
       THEN /\ ret' = "already_running"
            /\ UNCHANGED <<interaction_active, interaction_thread, pc>>
       ELSE \E t \in Threads :
              /\ pc[t] = "none"
              /\ \A u \in Threads : u < t => pc[u] # "none"
              /\ interaction_active' = TRUE
              /\ interaction_thread' = t
              /\ pc' = [pc EXCEPT ![t] = "loop_test"]
              /\ ret' = "started"
  /\ UNCHANGED <<envVars, argVars, recVars, turnVars, should_exit, should_stop_recording,
                 led, ctl_pc, gen, ts_rate, histVars>>

\* Lines 55-67 without the test of interaction_active.
StopBeginNoGuard ==
  /\ ctl_pc = "idle"
  /\ interaction_active' = FALSE
  /\ should_exit' = TRUE
  /\ should_stop_recording' = TRUE
  /\ led' = "cyan"
  /\ ctl_pc' = "stop_join"
  /\ cancelReq' = [t \in Threads |-> cancelReq[t] \/ Alive(t)]
  /\ UNCHANGED <<ret, interaction_thread>>
  /\ UNCHANGED <<envVars, argVars, recVars, turnVars, pc, gen, ts_rate, spun>>

\* Lines 55-67: stop_interaction up to the join.  An idle controller answers
\* 'not_running'; otherwise the flags are set (set_stop_recording sets the
\* capture flag and the LED) and the caller waits for the thread.
StopBegin ==
  /\ ctl_pc = "idle"
  /\ IF ~interaction_active
       THEN /\ ret' = "not_running"
            /\ UNCHANGED <<interaction_active, should_exit, should_stop_recording,
                           led, ctl_pc, cancelReq>>
       ELSE /\ interaction_active' = FALSE
            /\ should_exit' = TRUE
            /\ should_stop_recording' = TRUE
            /\ led' = "cyan"
            /\ ctl_pc' = "stop_join"
            /\ cancelReq' = [t \in Threads |-> cancelReq[t] \/ Alive(t)]
            /\ UNCHANGED ret
  /\ UNCHANGED interaction_thread
  /\ UNCHANGED <<envVars, argVars, recVars, turnVars, pc, gen, ts_rate, spun>>

\* A thread that can outlast the 3 s of join(timeout=3.0): it is inside a
\* remote call, playback or the join of the actuator thread, or it retries
\* captures with the cancellation flag set.
BlockingPcs == {"transcribing", "asr_chat", "ts_error", "dispatch", "tts", "play", "join",
                "loop_except"}
MayOutlastJoin(t) == pc[t] \in BlockingPcs \/ (Alive(t) /\ spun[t])

\* Lines 69-86: the join returns (the thread has ended, or 3 s have passed),
\* the state is reset and 'stopped' is returned.
StopFinish ==
  /\ ctl_pc = "stop_join"
  /\ IF interaction_thread = 0
       THEN TRUE
       ELSE ~Alive(interaction_thread) \/ MayOutlastJoin(interaction_thread)
  /\ interaction_thread' = 0
  /\ should_exit' = FALSE
  /\ led' = "cyan"
  /\ ret' = "stopped"
  /\ ctl_pc' = "idle"
  /\ UNCHANGED <<envVars, argVars, recVars, turnVars, interaction_active,
                 should_stop_recording, pc, gen, ts_rate, histVars>>

\* ---------------------------------------- find_audio_device called directly

\* find_audio_device is called.
FadCall ==
  /\ device_index = NotCalled
  /\ device_index' = FindAudioDevice(devices, device_name)
  /\ UNCHANGED <<devices, device_name>>
  /\ UNCHANGED <<ctlVars, has_key, has_xi_key, has_pa, has_device, dev_rates,
                 dev_default, max_speech, has_prompts, emVars, gsVars, raceVars,
                 sigVars, argVars, recVars, turnVars,
                 should_stop_recording, led, pc, gen, ts_rate, histVars>>

InitFind ==
  /\ InitCommon
  /\ main_pc = "loop"
  /\ signalled = FALSE
  /\ start_pc = [c \in Callers |-> "none"]
  /\ start_ret = [c \in Callers |-> "none"]
  /\ responses = << >>
  /\ emitted = << >>
  /\ has_key = TRUE
  /\ has_xi_key = TRUE
  /\ has_pa = TRUE
  /\ has_prompts = FALSE
  /\ devices \in DeviceLists
  /\ device_name \in DeviceNameArgs
  /\ device_index = NotCalled
  /\ movement_name = None
  /\ has_device = (FindAudioDevice(devices, DjiMic) # NoDevice)
  /\ dev_rates = {8000}
  /\ dev_default \in DevDefaults
  /\ max_speech = MaxSpeechTurn
  /\ preferred_rate = [t \in Threads |-> 0]
  /\ silence_limit = [t \in Threads |-> 0]
  /\ pc = [t \in Threads |-> "none"]

NextFind == FadCall

SpecFind == InitFind /\ [][NextFind]_vars

\* -------------------------------------------------------- execute_movement

\* Four of the sixteen entries of movement_map (lines 25-42): hug, x_ray,
\* heart and reject, with their action names.
Hug == <<"h", "u", "g">>
XRayKey == <<"x", "_", "r", "a", "y">>
XRayAction == <<"x", "-", "r", "a", "y">>
Heart == <<"h", "e", "a", "r", "t">>
Reject == <<"r", "e", "j", "e", "c", "t">>
movement_map ==
  [k \in {Hug, XRayKey, Heart, Reject} |-> IF k = XRayKey THEN XRayAction ELSE k]

\* str.replace(" ", "_").
ReplaceSpaces(s) == [i \in 1..Len(s) |-> IF s[i] = " " THEN "_" ELSE s[i]]

\* Lines 55-70 without the test of line 57: every name is passed on to the
\* arm client.
ExecuteMovementNoCheck(name, hw_ok) ==
  LET normalized_name == ReplaceSpaces(Lower(name))
  IN  [ret |-> hw_ok,
       cmd |-> IF normalized_name \in DOMAIN movement_map
                 THEN movement_map[normalized_name] ELSE normalized_name]

\* Lines 55-70: execute_movement(movement_name).  hw_ok says whether
\* ExecuteAction returns (TRUE) or raises (FALSE); cmd is the action passed
\* to ExecuteAction, None if it is not called.
ExecuteMovement(name, hw_ok) ==
  LET normalized_name == ReplaceSpaces(Lower(name))
  IN  IF normalized_name \notin DOMAIN movement_map
        THEN [ret |-> FALSE, cmd |-> None]
        ELSE [ret |-> hw_ok, cmd |-> movement_map[normalized_name]]

\* The names execute_movement is called with: identifiers of the set and
\* others, of up to MaxNameLen characters, in every mix of upper and lower
\* case, with a blank for any underscore.
MvWave == <<"w", "a", "v", "e">>
Hugs == <<"h", "u", "g", "s">>
MovementWords == {Hug, XRayKey, XRayAction, Heart, Reject, MvWave, Hugs}
Alt(c) == IF c = "_" THEN " " ELSE ToUpper(c)
Spellings(w) ==
  {[i \in 1..Len(w) |-> IF i \in S THEN Alt(w[i]) ELSE w[i]] : S \in SUBSET (1..Len(w))}
MovementNames == UNION {Spellings(w) : w \in {v \in MovementWords : Len(v) <= MaxNameLen}}

\* execute_movement is called and returns.
EmCall ==
  /\ em_ret = "none"
  /\ \E hw_ok \in BOOLEAN :
       LET r == ExecuteMovement(movement_name, hw_ok)
       IN  /\ em_ret' = IF r.ret THEN "True" ELSE "False"
           /\ arm_cmd' = r.cmd
  /\ UNCHANGED movement_name
  /\ UNCHANGED <<ctlVars, has_key, has_xi_key, has_pa, has_device, dev_rates,
                 dev_default, max_speech, has_prompts, fadVars, gsVars, raceVars, sigVars, argVars, recVars,
                 turnVars, should_stop_recording, led, pc, gen, ts_rate, histVars>>

InitMove ==
  /\ InitCommon
  /\ main_pc = "loop"
  /\ signalled = FALSE
  /\ start_pc = [c \in Callers |-> "none"]
  /\ start_ret = [c \in Callers |-> "none"]
  /\ responses = << >>
  /\ emitted = << >>
  /\ has_key = TRUE
  /\ has_xi_key = TRUE
  /\ has_pa = TRUE
  /\ has_prompts = FALSE
  /\ has_device = TRUE
  /\ devices = OneMic
  /\ device_name = DjiMic
  /\ device_index = FindAudioDevice(devices, device_name)
  /\ movement_name \in MovementNames
  /\ dev_rates = {8000}
  /\ dev_default \in DevDefaults
  /\ max_speech = MaxSpeechTurn
  /\ preferred_rate = [t \in Threads |-> 0]
  /\ silence_limit = [t \in Threads |-> 0]
  /\ pc = [t \in Threads |-> "none"]

NextMove == EmCall

SpecMove == InitMove /\ [][NextMove]_vars

\* ------------------------------------------- googleasr-ubuntu.py (streaming)

\* One recognition result: interim or final, with the text of its first
\* alternative.
StreamResults == [is_final : BOOLEAN, transcript : {<< >>, Hello}]

\* A response of the recognizer carries up to MaxResults results.
StreamResponses == UNION {[1..n -> StreamResults] : n \in 0..MaxResults}

\* What the recognizer may deliver over one run of the script.
ResponseStreams == UNION {[1..n -> StreamResponses] : n \in 0..MaxResponses}

\* for result in response.results: if result.is_final: print(...)
RECURSIVE PrintFinals(_)
PrintFinals(results) ==
  IF results = << >> THEN << >>
  ELSE (IF Head(results).is_final THEN <<Head(results).transcript>> ELSE << >>)
       \o PrintFinals(Tail(results))

\* One iteration of "for response in responses".
StreamResponse ==
  /\ responses # << >>
  /\ emitted' = emitted \o PrintFinals(Head(responses))
  /\ responses' = Tail(responses)
  /\ UNCHANGED <<ctlVars, has_key, has_xi_key, has_pa, has_device, dev_rates,
                 dev_default, max_speech, has_prompts, fadVars, emVars, raceVars, sigVars, argVars,
                 recVars,
                 turnVars, should_stop_recording, led, pc, gen, ts_rate, histVars>>

InitStream ==
  /\ InitCommon
  /\ main_pc = "loop"
  /\ signalled = FALSE
  /\ start_pc = [c \in Callers |-> "none"]
  /\ start_ret = [c \in Callers |-> "none"]
  /\ responses \in ResponseStreams
  /\ emitted = << >>
  /\ has_key = TRUE
  /\ has_xi_key = TRUE
  /\ has_pa = TRUE
  /\ has_prompts = FALSE
  /\ has_device = TRUE
  /\ devices = OneMic
  /\ device_name = DjiMic
  /\ device_index = FindAudioDevice(devices, device_name)
  /\ movement_name = None
  /\ dev_rates = {16000}
  /\ dev_default = 16000
  /\ max_speech = MaxSpeechTurn
  /\ preferred_rate = [t \in Threads |-> 0]
  /\ silence_limit = [t \in Threads |-> 0]
  /\ pc = [t \in Threads |-> "none"]

NextStream == StreamResponse

SpecStream == InitStream /\ [][NextStream]_vars

\* ------------------------------------------------------------ googleasr.py

\* The Google backend has its own should_stop_recording, set_stop_recording,
\* record_audio and transcribe_speech.  When its transcribe_speech is the
\* one that runs, the variables of the recording stand for its globals and
\* locals of the same names; it does not touch the LED.

\* Where the generator is between its first line and its end.
GActivePcs == {"g_find", "g_rec_begin", "g_rec_open", "g_while", "g_read", "g_chk",
               "g_finally", "g_returned", "g_transcribing"}

\* Lines 16-18: set_stop_recording, called from another thread while
\* transcribe_speech runs.
GSetStopRecording(t) ==
  /\ pc[t] \in GActivePcs
  /\ ~should_stop_recording
  /\ should_stop_recording' = TRUE
  /\ cancelReq' = [cancelReq EXCEPT ![t] = TRUE]
  /\ UNCHANGED <<ctlVars, envVars, argVars, recVars, turnVars, led, pc, gen, ts_rate,
                 spun>>

\* Lines 192-219: without an input device the generator returns; the
\* creation of the client may raise, which line 251 answers with yield None.
GFind(t) ==
  /\ pc[t] = "g_find"
  /\ IF ~has_device
       THEN pc' = [pc EXCEPT ![t] = "done"]
       ELSE \/ pc' = [pc EXCEPT ![t] = "g_rec_begin"]
            \/ pc' = [pc EXCEPT ![t] = "done"]
  /\ UNCHANGED <<ctlVars, envVars, argVars, recVars, turnVars, should_stop_recording,
                 led, gen, ts_rate, histVars>>

\* Lines 63-68: record_audio is entered with the device's default rate and
\* silence_limit = 1.0; the flag is reset, the buffer is fresh.
GRecBegin(t) ==
  /\ pc[t] = "g_rec_begin"
  /\ should_stop_recording' = FALSE
  /\ frames' = [frames EXCEPT ![t] = << >>]
  /\ silence_frames' = [silence_frames EXCEPT ![t] = 0]
  /\ tape' = [tape EXCEPT ![t] = << >>]
  /\ endedBy' = [endedBy EXCEPT ![t] = "none"]
  /\ sample_rate' = [sample_rate EXCEPT ![t] = dev_default]
  /\ silence_threshold' =
       [silence_threshold EXCEPT ![t] = SilenceThreshold(100, dev_default)]
  /\ pc' = [pc EXCEPT ![t] = "g_rec_open"]
  /\ UNCHANGED <<ctlVars, envVars, argVars, turnVars, audio, led, gen, ts_rate,
                 histVars>>

\* Lines 71-86: open and start the stream; a failure is caught at line 117,
\* which returns None.
GRecOpen(t) ==
  /\ pc[t] = "g_rec_open"
  /\ IF sample_rate[t] \in dev_rates
       THEN /\ pc' = [pc EXCEPT ![t] = "g_while"]
            /\ UNCHANGED <<endedBy, audio>>
       ELSE /\ pc' = [pc EXCEPT ![t] = "g_returned"]
            /\ endedBy' = [endedBy EXCEPT ![t] = "exception"]
            /\ audio' = [audio EXCEPT ![t] = None]
  /\ UNCHANGED <<ctlVars, envVars, argVars, turnVars, should_stop_recording, led,
                 gen, ts_rate, sample_rate, silence_threshold, frames,
                 silence_frames, tape, histVars>>

\* Line 87: while not should_stop_recording.
GRecWhile(t) ==
  /\ pc[t] = "g_while"
  /\ IF should_stop_recording
       THEN /\ pc' = [pc EXCEPT ![t] = "g_finally"]
            /\ endedBy' = [endedBy EXCEPT ![t] = "cancel"]
       ELSE /\ pc' = [pc EXCEPT ![t] = "g_read"]
            /\ UNCHANGED endedBy
  /\ UNCHANGED <<ctlVars, envVars, argVars, turnVars, should_stop_recording, led,
                 gen, ts_rate, sample_rate, silence_threshold, frames,
                 silence_frames, tape, audio, histVars>>

\* Line 89: stream.read returns one 10 ms frame.
GRecRead(t) ==
  /\ pc[t] = "g_read"
  /\ \E speech \in BOOLEAN :
       /\ speech => sample_rate[t] \in VadRates /\ SpeechCount(tape[t]) < max_speech
       /\ (~speech /\ SpeechCount(tape[t]) = 0) => Len(tape[t]) < MaxLead
       /\ tape' = [tape EXCEPT ![t] =
                     Append(@, [speech |-> speech, late |-> should_stop_recording])]
  /\ pc' = [pc EXCEPT ![t] = "g_chk"]
  /\ UNCHANGED <<ctlVars, envVars, argVars, turnVars, should_stop_recording, led,
                 gen, ts_rate, sample_rate, silence_threshold, frames,
                 silence_frames, endedBy, audio, histVars>>

\* Lines 103-106, 117-119: stream.read raises an IOError other than the
\* input overflow; it is raised again, caught at line 117, and None is
\* returned.
GRecReadError(t) ==
  /\ pc[t] = "g_read"
  /\ pc' = [pc EXCEPT ![t] = "g_returned"]
  /\ endedBy' = [endedBy EXCEPT ![t] = "ioerror"]
  /\ audio' = [audio EXCEPT ![t] = None]
  /\ UNCHANGED <<ctlVars, envVars, argVars, turnVars, should_stop_recording, led,
                 gen, ts_rate, sample_rate, silence_threshold, frames,
                 silence_frames, tape, histVars>>

\* Lines 90-110: the frame is dropped if the flag is set by now; is_speech
\* raises at a rate it does not accept (line 107 leaves the loop); a speech
\* frame is buffered; a non-speech frame is buffered and counted once
\* speech has begun.
GRecClassify(t) ==
  /\ pc[t] = "g_chk"
  /\ LET n == Len(tape[t]) IN
     IF should_stop_recording
       THEN /\ pc' = [pc EXCEPT ![t] = "g_finally"]
            /\ endedBy' = [endedBy EXCEPT ![t] = "cancel"]
            /\ UNCHANGED <<frames, silence_frames>>
     ELSE IF sample_rate[t] \notin VadRates
       THEN /\ pc' = [pc EXCEPT ![t] = "g_finally"]
            /\ endedBy' = [endedBy EXCEPT ![t] = "exception"]
            /\ UNCHANGED <<frames, silence_frames>>
     ELSE IF tape[t][n].speech
       THEN /\ frames' = [frames EXCEPT ![t] = Append(@, n)]
            /\ silence_frames' = [silence_frames EXCEPT ![t] = 0]
            /\ pc' = [pc EXCEPT ![t] = "g_while"]
            /\ UNCHANGED endedBy
     ELSE IF frames[t] # << >>
       THEN /\ frames' = [frames EXCEPT ![t] = Append(@, n)]
            /\ silence_frames' = [silence_frames EXCEPT ![t] = @ + 1]
            /\ IF silence_frames[t] + 1 > silence_threshold[t]
                 THEN /\ pc' = [pc EXCEPT ![t] = "g_finally"]
                      /\ endedBy' = [endedBy EXCEPT ![t] = "silence"]
                 ELSE /\ pc' = [pc EXCEPT ![t] = "g_while"]
                      /\ UNCHANGED endedBy
     ELSE /\ pc' = [pc EXCEPT ![t] = "g_while"]
          /\ UNCHANGED <<frames, silence_frames, endedBy>>
  /\ UNCHANGED <<ctlVars, envVars, argVars, turnVars, should_stop_recording, led,
                 gen, ts_rate, sample_rate, silence_threshold, tape, audio, histVars>>

\* Lines 112-135: the stream is closed; None is returned for an empty
\* buffer or a set flag, else the joined frames.
GRecFinish(t) ==
  /\ pc[t] = "g_finally"
  /\ audio' = [audio EXCEPT ![t] =
                 IF frames[t] = << >> \/ should_stop_recording THEN None ELSE frames[t]]
  /\ pc' = [pc EXCEPT ![t] = "g_returned"]
  /\ UNCHANGED <<ctlVars, envVars, argVars, turnVars, should_stop_recording, led,
                 gen, ts_rate, sample_rate, silence_threshold, frames,
                 silence_frames, tape, endedBy, histVars>>

\* Lines 229-238: without audio None is yielded and the generator returns;
\* otherwise the audio is written to a temporary file.
GAfterRecord(t) ==
  /\ pc[t] = "g_returned"
  /\ IF audio[t] = None
       THEN /\ pc' = [pc EXCEPT ![t] = "done"]
            /\ UNCHANGED audio
       ELSE /\ pc' = [pc EXCEPT ![t] = "g_transcribing"]
            /\ audio' = [audio EXCEPT ![t] = TempFile]
  /\ UNCHANGED <<ctlVars, envVars, argVars, turnVars, should_stop_recording, led,
                 gen, ts_rate, sample_rate, silence_threshold, frames,
                 silence_frames, tape, endedBy, histVars>>

\* Lines 241-255: recognize returns results, whose transcripts are yielded,
\* or raises (line 251 yields None); the temporary file is removed.
GTranscribe(t) ==
  /\ pc[t] = "g_transcribing"
  /\ \E tr \in {Hello, None} : transcript' = [transcript EXCEPT ![t] = tr]
  /\ audio' = [audio EXCEPT ![t] = None]
  /\ pc' = [pc EXCEPT ![t] = "done"]
  /\ UNCHANGED <<ctlVars, envVars, argVars, should_stop_recording, led, gen, ts_rate,
                 sample_rate, silence_threshold, frames, silence_frames, tape,
                 endedBy, reply, chat_response, movement, mv, orphan, exc, histVars>>

\* Devices of the Google runs: default rate 8000 or 44100, streams that open
\* or do not.
GoogleDefaults == {8000, 44100}
GoogleDevices == {{8000, 44100}, {}}

\* transcribe_speech of googleasr.py has been called.
InitGoogle ==
  /\ InitCommon
  /\ main_pc = "loop"
  /\ signalled = FALSE
  /\ start_pc = [c \in Callers |-> "none"]
  /\ start_ret = [c \in Callers |-> "none"]
  /\ responses = << >>
  /\ emitted = << >>
  /\ has_key = TRUE
  /\ has_xi_key = TRUE
  /\ has_pa = TRUE
  /\ has_prompts = FALSE
  /\ has_device \in BOOLEAN
  /\ devices = IF has_device THEN OneMic ELSE NoMic
  /\ device_name = DjiMic
  /\ device_index = FindAudioDevice(devices, device_name)
  /\ movement_name = None
  /\ dev_rates \in GoogleDevices
  /\ dev_default \in GoogleDefaults
  /\ max_speech = MaxSpeech
  /\ preferred_rate = [t \in Threads |-> 0]
  /\ silence_limit = [t \in Threads |-> 0]
  /\ pc = [t \in Threads |-> IF t = 1 THEN "g_find" ELSE "none"]

NextGoogle ==
  \/ GSetStopRecording(1)
  \/ GFind(1)
  \/ GRecBegin(1)
  \/ GRecOpen(1)
  \/ GRecWhile(1)
  \/ GRecRead(1)
  \/ GRecReadError(1)
  \/ GRecClassify(1)
  \/ GRecFinish(1)
  \/ GAfterRecord(1)
  \/ GTranscribe(1)

SpecGoogle == InitGoogle /\ [][NextGoogle]_vars

\* ------------------------------------------------------------ the controller

\* Environments of the controller runs: everything in place; one of the two
\* keys, the audio library or the input device missing; a device whose
\* highest rate the classifier rejects; a device on which every probe fails.
\* A prompt is configured in the environment without the synthesis key.
Environments ==
  { [key |-> TRUE,  xi |-> TRUE,  pa |-> TRUE,  device |-> TRUE,  prompts |-> FALSE, rates |-> {8000}],
    [key |-> FALSE, xi |-> TRUE,  pa |-> TRUE,  device |-> TRUE,  prompts |-> FALSE, rates |-> {8000}],
    [key |-> TRUE,  xi |-> FALSE, pa |-> TRUE,  device |-> TRUE,  prompts |-> TRUE,  rates |-> {8000}],
    [key |-> TRUE,  xi |-> TRUE,  pa |-> FALSE, device |-> TRUE,  prompts |-> FALSE, rates |-> {8000}],
    [key |-> TRUE,  xi |-> TRUE,  pa |-> TRUE,  device |-> FALSE, prompts |-> FALSE, rates |-> {}],
    [key |-> TRUE,  xi |-> TRUE,  pa |-> TRUE,  device |-> TRUE,  prompts |-> FALSE, rates |-> {8000, 44100}],
    [key |-> TRUE,  xi |-> TRUE,  pa |-> TRUE,  device |-> TRUE,  prompts |-> FALSE, rates |-> {}] }

Init ==
  /\ InitCommon
  /\ main_pc = "loop"
  /\ signalled = FALSE
  /\ start_pc = [c \in Callers |-> "none"]
  /\ start_ret = [c \in Callers |-> "none"]
  /\ responses = << >>
  /\ emitted = << >>
  /\ \E e \in Environments :
       /\ has_key = e.key
       /\ has_xi_key = e.xi
       /\ has_pa = e.pa
       /\ has_prompts = e.prompts
       /\ has_device = e.device
       /\ devices = IF e.device THEN OneMic ELSE NoMic
       /\ dev_rates = e.rates
  /\ device_name = DjiMic
  /\ device_index = FindAudioDevice(devices, device_name)
  /\ has_device = (device_index # NoDevice)
  /\ movement_name = None
  /\ dev_default \in DevDefaults
  /\ max_speech = MaxSpeechTurn
  /\ preferred_rate = [t \in Threads |-> 0]
  /\ silence_limit = [t \in Threads |-> 0]
  /\ pc = [t \in Threads |-> "none"]

ThreadStep(t) ==
  \/ LoopTest(t)
  \/ TsInit(t)
  \/ RecBegin(t)
  \/ RecOpen(t)
  \/ RecWhile(t)
  \/ RecRead(t)
  \/ RecReadError(t)
  \/ RecClassify(t)
  \/ RecFinish(t)
  \/ TsAfterRecord(t)
  \/ TsError(t)
  \/ TsTranscribe(t)
  \/ TsAsrChat(t)
  \/ LoopBody(t)
  \/ PsiCheck(t)
  \/ PsiDispatch(t)
  \/ PsiDecode(t)
  \/ PsiTts(t)
  \/ PsiPlay(t)
  \/ PsiJoin(t)
  \/ PsiExcept(t)
  \/ LoopBreak(t)
  \/ LoopExcept(t)

Next ==
  \/ StartInteraction
  \/ StopBegin
  \/ StopFinish
  \/ \E t \in Threads : ThreadStep(t)
  \/ \E t \in Threads : MvFinish(t)
  \/ \E t \in Threads : OrphanFinish(t)

Spec == Init /\ [][Next]_vars

\* Threads are scheduled, device reads and remote calls return, actuator
\* threads end, and the join of stop_interaction returns.
FairSpec ==
  /\ Spec
  /\ \A t \in Threads : WF_vars(ThreadStep(t))
  /\ \A t \in Threads : WF_vars(MvFinish(t))
  /\ \A t \in Threads : WF_vars(OrphanFinish(t))
  /\ WF_vars(StopFinish)

\* ------------------------------- start_interaction from concurrent requests

\* The web control surface serves each request on a thread of its own, so
\* two requests can be inside start_interaction at once.  Nothing in lines
\* 40-53 excludes another thread between the test of line 44 and the
\* assignment of line 47.

\* Line 44: the test of interaction_active, and the return of line 45.
StartTest(c) ==
  /\ start_pc[c] = "test"
  /\ IF interaction_active
       THEN /\ start_pc' = [start_pc EXCEPT ![c] = "done"]
            /\ start_ret' = [start_ret EXCEPT ![c] = "already_running"]
       ELSE /\ start_pc' = [start_pc EXCEPT ![c] = "set"]
            /\ UNCHANGED start_ret
  /\ UNCHANGED <<has_key, has_xi_key, has_pa, has_device, dev_rates, dev_default,
                 max_speech, has_prompts, fadVars, emVars, gsVars, sigVars>>
  /\ UNCHANGED <<ctlVars, argVars, recVars, turnVars, should_stop_recording, led, pc,
                 gen, ts_rate, histVars>>

\* Line 47: interaction_active = True.
StartSet(c) ==
  /\ start_pc[c] = "set"
  /\ interaction_active' = TRUE
  /\ start_pc' = [start_pc EXCEPT ![c] = "create"]
  /\ UNCHANGED start_ret
  /\ UNCHANGED <<has_key, has_xi_key, has_pa, has_device, dev_rates, dev_default,
                 max_speech, has_prompts, fadVars, emVars, gsVars, sigVars>>
  /\ UNCHANGED <<argVars, recVars, turnVars, should_exit, interaction_thread,
                 should_stop_recording, led, ctl_pc, ret, pc, gen, ts_rate, histVars>>

\* Lines 50-53: the thread is created and started, 'started' is returned.
StartCreate(c) ==
  /\ start_pc[c] = "create"
  /\ \E t \in Threads :
       /\ pc[t] = "none"
       /\ \A u \in Threads : u < t => pc[u] # "none"
       /\ interaction_thread' = t
       /\ pc' = [pc EXCEPT ![t] = "loop_test"]
  /\ start_pc' = [start_pc EXCEPT ![c] = "done"]
  /\ start_ret' = [start_ret EXCEPT ![c] = "started"]
  /\ UNCHANGED <<has_key, has_xi_key, has_pa, has_device, dev_rates, dev_default,
                 max_speech, has_prompts, fadVars, emVars, gsVars, sigVars>>
  /\ UNCHANGED <<argVars, recVars, turnVars, should_exit, interaction_active,
                 should_stop_recording, led, ctl_pc, ret, gen, ts_rate, histVars>>

\* Every request thread is about to execute line 44 on an idle controller.
\* The specification follows the calls to their returns; the loops they
\* create are left at their first line.
InitRace ==
  /\ InitCommon
  /\ main_pc = "loop"
  /\ signalled = FALSE
  /\ responses = << >>
  /\ emitted = << >>
  /\ start_pc = [c \in Callers |-> "test"]
  /\ start_ret = [c \in Callers |-> "none"]
  /\ \E e \in Environments :
       /\ has_key = e.key
       /\ has_xi_key = e.xi
       /\ has_pa = e.pa
       /\ has_prompts = e.prompts
       /\ has_device = e.device
       /\ devices = IF e.device THEN OneMic ELSE NoMic
       /\ dev_rates = e.rates
  /\ device_name = DjiMic
  /\ device_index = FindAudioDevice(devices, device_name)
  /\ has_device = (device_index # NoDevice)
  /\ movement_name = None
  /\ dev_default \in DevDefaults
  /\ max_speech = MaxSpeechTurn
  /\ preferred_rate = [t \in Threads |-> 0]
  /\ silence_limit = [t \in Threads |-> 0]
  /\ pc = [t \in Threads |-> "none"]

NextRace ==
  \/ \E c \in Callers : StartTest(c)
  \/ \E c \in Callers : StartSet(c)
  \/ \E c \in Callers : StartCreate(c)

SpecRace == InitRace /\ [][NextRace]_vars

\* ------------------------------------------------- signal_handler and main

\* The process runs: main() is in its loop of lines 199-207.
Running == main_pc = "loop"

\* Lines 30-38: the handler of SIGINT.  The first interrupt requests the
\* shutdown (set_stop_recording sets the capture flag and the LED); an
\* interrupt that finds should_exit set ends the process with sys.exit(1).
SignalHandler ==
  /\ Running
  /\ signalled' = TRUE
  /\ IF ~should_exit
       THEN /\ should_exit' = TRUE
            /\ should_stop_recording' = TRUE
            /\ led' = "cyan"
            /\ cancelReq' = [t \in Threads |-> cancelReq[t] \/ Alive(t)]
            /\ UNCHANGED main_pc
       ELSE /\ main_pc' = "forced"
            /\ UNCHANGED <<should_exit, should_stop_recording, led, cancelReq>>
  /\ UNCHANGED <<has_key, has_xi_key, has_pa, has_device, dev_rates, dev_default,
                 max_speech, has_prompts, fadVars, emVars, gsVars, raceVars>>
  /\ UNCHANGED <<argVars, recVars, turnVars, interaction_active, interaction_thread,
                 ctl_pc, ret, pc, gen, ts_rate, spun>>

\* Lines 199-212: the main thread wakes from time.sleep(1) and tests
\* should_exit; when it is set the loop ends, the LED is switched off and
\* main() returns.
MainLoop ==
  /\ Running
  /\ should_exit
  /\ main_pc' = "done"
  /\ led' = "off"
  /\ UNCHANGED signalled
  /\ UNCHANGED <<has_key, has_xi_key, has_pa, has_device, dev_rates, dev_default,
                 max_speech, has_prompts, fadVars, emVars, gsVars, raceVars>>
  /\ UNCHANGED <<ctlVars, argVars, recVars, turnVars, should_stop_recording, pc,
                 gen, ts_rate, histVars>>

\* The control surface and the loop threads run for as long as the process.
NextSignal ==
  \/ SignalHandler
  \/ MainLoop
  \/ Running /\ Next

SpecSignal == Init /\ [][NextSignal]_vars

\* ------------------------------------------------------------------ claims

CapturePcs == {"rec_open", "rec_while", "rec_read", "rec_chk"}

\* C1: at most one interaction_loop thread is alive, after any sequence of
\* start_interaction and stop_interaction calls.
C1_AtMostOneLoop == Cardinality({t \in Threads : Alive(t)}) <= 1

\* C2: once stop_interaction has set the cancellation flags, every loop
\* thread that was alive then eventually terminates.
C2_StopTerminatesLoop == \A t \in Threads : cancelReq[t] ~> (pc[t] = "done")

\* C3: while a loop thread captures, should_stop_recording is false unless a
\* stop was requested after that thread was started.
C3_FlagClearAtCapture ==
  \A t \in Threads :
    (pc[t] \in CapturePcs /\ ~cancelReq[t]) => ~should_stop_recording

\* C4: start_interaction on an active controller returns 'already_running',
\* creates no thread and changes nothing else.
C4_StartWhileActive ==
  [][(StartInteraction /\ interaction_active) =>
       /\ ret' = "already_running"
       /\ UNCHANGED <<should_exit, interaction_active, interaction_thread,
                      should_stop_recording, led, ctl_pc, pc, envVars, argVars,
                      recVars, turnVars, gen, ts_rate, histVars>>]_vars

C4_Witness == ret = "already_running" /\ interaction_active

\* C5: stop_interaction on an idle controller returns 'not_running' and
\* leaves interaction_active, should_exit, the capture flag, the LED and
\* everything else as they were.
C5_StopWhileIdle ==
  [][(StopBegin /\ ~interaction_active) =>
       /\ ret' = "not_running"
       /\ UNCHANGED <<should_exit, interaction_active, interaction_thread,
                      should_stop_recording, led, ctl_pc, pc, envVars, argVars,
                      recVars, turnVars, gen, ts_rate, histVars>>]_vars

C5_Witness == ret = "not_running" /\ ~interaction_active

\* C6: within one recording at most one frame read completes after the
\* cancellation flag was set, and no such frame is buffered.
C6_CancelWithinOneFrame ==
  \A t \in Threads :
    /\ LateCount(tape[t]) <= 1
    /\ \A k \in 1..Len(frames[t]) : ~tape[t][frames[t][k]].late

C6_Witness ==
  \E t \in Threads :
    /\ pc[t] = "rec_finally"
    /\ endedBy[t] = "cancel"
    /\ LateCount(tape[t]) = 1
    /\ frames[t] # << >>

\* C7: a recording ended by the cancellation flag returns no audio, and no
\* audio of it is submitted for transcription.
C7_CancelDiscardsBuffer ==
  \A t \in Threads :
    endedBy[t] = "cancel" =>
      /\ pc[t] = "rec_returned" => audio[t] = None
      /\ pc[t] # "transcribing"

\* The number of speech frames at the head of a tape.
LeadSpeech(tp) ==
  Cardinality({i \in 1..Len(tp) : \A j \in 1..i : tp[j].speech})

\* tp is n >= 1 speech frames followed by non-speech frames only.
SpeechThenSilence(tp) ==
  /\ LeadSpeech(tp) >= 1
  /\ \A i \in (LeadSpeech(tp) + 1)..Len(tp) : ~tp[i].speech

Iota(n) == [i \in 1..n |-> i]

\* C8: with no cancellation and no read error, N >= 1 speech frames followed
\* by silence_threshold+1 non-speech frames are all buffered in order, the
\* recording goes on until the last of them, ends there, returns exactly
\* them, and nothing is read after them.
C8_UtteranceExact ==
  LET tp == tape[1]
      n == LeadSpeech(tp)
      last == n + silence_threshold[1] + 1
      classified == IF pc[1] = "rec_chk" THEN Len(tp) - 1 ELSE Len(tp)
  IN  (/\ SpeechThenSilence(tp)
       /\ endedBy[1] \notin {"cancel", "ioerror"}
       /\ ~should_stop_recording \/ endedBy[1] = "silence") =>
        /\ Len(tp) <= last
        /\ frames[1] = Iota(classified)
        /\ classified < last => endedBy[1] = "none" /\ pc[1] \in CapturePcs
        /\ classified = last =>
             /\ endedBy[1] = "silence"
             /\ pc[1] \in {"rec_finally", "rec_returned"}
             /\ pc[1] = "rec_returned" => audio[1] = Iota(last)

C8_Witness ==
  /\ pc[1] = "rec_returned"
  /\ SpeechThenSilence(tape[1])
  /\ LeadSpeech(tape[1]) = 2
  /\ silence_threshold[1] >= 1
  /\ Len(tape[1]) = 2 + silence_threshold[1] + 1
  /\ audio[1] = Iota(Len(tape[1]))

\* C9: while no speech frame has been read the buffer is empty; a recording
\* that ends with an empty buffer returns no audio, and a transcription call
\* is made only with audio.
C9_SilenceYieldsNoSpeech ==
  \A t \in Threads :
    /\ SpeechCount(tape[t]) = 0 => frames[t] = << >>
    /\ (pc[t] = "rec_returned" /\ frames[t] = << >>) => audio[t] = None
    /\ pc[t] = "transcribing" => audio[t] # None

C9_Witness ==
  \E t \in Threads :
    /\ pc[t] = "rec_returned"
    /\ Len(tape[t]) >= 1
    /\ SpeechCount(tape[t]) = 0
    /\ ~tape[t][1].late
    /\ audio[t] = None

\* C10: the silence threshold is silence_limit / 0.01 frames (silence_limit
\* in centiseconds: that many frames), whatever the sample rate.
C10_ThresholdInFrames ==
  \A t \in Threads :
    pc[t] \in CapturePcs => silence_threshold[t] = silence_limit[t]

\* The program counters of record_audio, and those of a turn: inside
\* process_speech_input, from the transcript to the return.
RecPcs == CapturePcs \cup {"rec_begin", "rec_finally", "rec_returned"}
TurnPcs == {"psi_check", "dispatch", "decode", "tts", "play", "join", "psi_except"}
DecodedPcs == {"tts", "play", "join", "psi_except"}

\* C11: a reply carrying the record {chat-response: tx, movement: Wave},
\* wrapped in a delimited block or not, decodes to spoken text tx and action
\* Wave.
C11_WrappedEqualsUnwrapped ==
  \A t \in Threads : \A tx \in {Hi, Fenced} :
    (/\ pc[t] \in DecodedPcs
     /\ reply[t] \in {JsonRecord(tx, Wave), Wrapped(JsonRecord(tx, Wave))}) =>
      /\ chat_response[t] = tx
      /\ movement[t] = Wave

\* C12: a reply that is no structured record (raw text, or a delimited block
\* with an unparsable interior) does not abort the turn: once decoded, the
\* whole reply is the spoken text, there is no action, and no decode error
\* is being handled.
C12_DecodeFailureDegrades ==
  \A t \in Threads :
    (pc[t] \in DecodedPcs /\ reply[t] \in {RawText, Wrapped(RawText)}) =>
      /\ exc[t] # "JSONDecodeError"
      /\ chat_response[t] = reply[t]
      /\ movement[t] = None

\* C13: whatever was raised inside process_speech_input, the handler returns
\* normally (no exception reaches interaction_loop), and unless a stop was
\* requested the loop then resumes the generator, which records again.
C13_TurnNeverRaises ==
  [][\A t \in Threads :
       /\ (pc[t] = "psi_except" /\ pc'[t] # "psi_except") =>
            (pc'[t] = "loop_brk" /\ exc'[t] = "none")
       /\ (/\ pc[t] = "loop_brk" /\ pc'[t] # "loop_brk"
           /\ gen[t] = "turn" /\ ~should_exit /\ interaction_active) =>
            pc'[t] = "rec_begin"]_vars

C13_Witness ==
  \E t \in Threads :
    /\ pc[t] = "psi_except"
    /\ exc[t] = "AttributeError"
    /\ reply[t] = JsonString(Hi)

\* C14: with an action, after synthesis and playback have succeeded, the
\* turn completes only once the actuator thread has finished, and leaves no
\* actuator thread behind.
C14_TurnWaitsForActuator ==
  [][\A t \in Threads :
       (pc[t] = "join" /\ pc'[t] # "join") =>
         /\ mv[t] # "running"
         /\ orphan'[t] = orphan[t]]_vars

C14_Witness ==
  \E t \in Threads :
    /\ pc[t] = "join"
    /\ movement[t] = Wave
    /\ mv[t] = "running"

\* C15: while a thread's record_audio captures, no actuator thread started
\* by an earlier turn of that thread is still running.
C15_NoActuatorAtCapture ==
  \A t \in Threads : pc[t] \in CapturePcs => ~orphan[t]

\* C16: once a reply with an action is decoded, the actuator command has
\* been started, also when the speech side fails.
C16_ActuatorStarted ==
  \A t \in Threads :
    (pc[t] \in DecodedPcs /\ movement[t] # None) => mv[t] # "none"

C18_IdleSignalInTurn ==
  \A t \in Threads : pc[t] \in TurnPcs => led = "cyan"

\* C19: while the record_audio of a loop thread that was not asked to stop
\* is in its capture loop the LED is green, and while its transcription
\* call is pending the LED is yellow.
C19_SignalFollowsPhase ==
  \A t \in Threads :
    ~cancelReq[t] =>
      /\ pc[t] \in {"rec_while", "rec_read", "rec_chk"} => led = "green"
      /\ pc[t] = "transcribing" => led = "yellow"

\* C20: a loop thread takes the LED off red only by the step that ends the
\* delay which follows the setting of red (lines 377-378).
C20_ErrorSignalHeld ==
  [][(led = "red" /\ led' # "red" /\ UNCHANGED ctlVars) =>
       \E t \in Threads : pc[t] = "ts_error" /\ pc'[t] # "ts_error"]_vars

\* C21: with no input device, start_interaction does not report 'started'
\* and does not leave the controller active.
C21_StartFailsWithoutDevice ==
  ~has_device => (ret # "started" /\ ~interaction_active)

InputCapable == {i \in 0..(Len(devices) - 1) : devices[i + 1].maxInputChannels > 0}

Matching ==
  {i \in InputCapable :
     /\ device_name # None
     /\ \E k \in 0..(Len(devices[i + 1].name) - Len(device_name)) :
          Lower(SubSeq(devices[i + 1].name, k + 1, k + Len(device_name))) = Lower(device_name)}

StreamPcs == {"rec_while", "rec_read", "rec_chk"}

GetInteractionStatus == IF interaction_active THEN "active" ELSE "inactive"

\* C25: between the calls of the control surface, get_interaction_status
\* reports 'active' exactly when an interaction_loop thread is running.
C25_StatusIffThreadRunning ==
  ctl_pc = "idle" =>
    (GetInteractionStatus = "active" <=> \E t \in Threads : Alive(t))

\* C26: a chat model call (line 229 of transcribe_audio, get_ai_response in
\* process_speech_input) is made only with a non-empty transcript.
ReasoningPcs == {"asr_chat", "dispatch"}

C26_ReasoningOnNonEmptyTranscript ==
  \A t \in Threads : pc[t] \in ReasoningPcs => transcript[t] # None

\* C27: a name that is no identifier of the movement set (up to case, and
\* blanks for underscores) makes execute_movement return False with no
\* action passed to the arm client; an action is passed only for an
\* identifier of the set.
KnownMovement ==
  \E k \in DOMAIN movement_map :
    /\ Len(k) = Len(movement_name)
    /\ \A i \in 1..Len(k) :
         \/ ToLower(movement_name[i]) = k[i]
         \/ movement_name[i] = " " /\ k[i] = "_"

C27_UnknownMovementFailsLocally ==
  em_ret # "none" =>
    /\ ~KnownMovement => (em_ret = "False" /\ arm_cmd = None)
    /\ arm_cmd # None => (KnownMovement /\ arm_cmd \in {movement_map[k] : k \in DOMAIN movement_map})

C27_Witness ==
  /\ movement_name = <<"W", "a", "v", "e">>
  /\ em_ret = "False"
  /\ arm_cmd = None

\* C28: at most one loop thread has the stream of record_audio open.
C28_OneCaptureStream ==
  Cardinality({t \in Threads : pc[t] \in StreamPcs}) <= 1

\* C29: a recording whose stream.read raised an IOError returns no audio,
\* and none of its frames reaches the transcription call.
C29_ReadFailureDiscardsFrames ==
  \A t \in Threads :
    endedBy[t] = "ioerror" =>
      /\ pc[t] = "rec_returned" => audio[t] = None
      /\ pc[t] \notin {"transcribing", "asr_chat"}

\* The non-speech frames at the end of the buffer of thread t: those after
\* its last speech frame.
TrailingSilence(t) ==
  LET f == frames[t]
      sp == {i \in 1..Len(f) : tape[t][f[i]].speech}
  IN  IF sp = {} THEN Len(f)
      ELSE Len(f) - (CHOOSE i \in sp : \A j \in sp : j <= i)

\* C30: silence_frames is the number of non-speech frames at the end of the
\* buffer, and a recording that ended by silence ends with exactly
\* silence_threshold + 1 of them.
C30_SilenceRunIsConsecutive ==
  \A t \in Threads :
    /\ silence_frames[t] = TrailingSilence(t)
    /\ (endedBy[t] = "silence" /\ pc[t] \in {"rec_finally", "rec_returned"}) =>
         TrailingSilence(t) = silence_threshold[t] + 1

\* A recording ended by silence whose buffer holds a non-speech frame
\* between two speech frames.
C30_Witness ==
  /\ pc[1] = "rec_returned"
  /\ endedBy[1] = "silence"
  /\ silence_threshold[1] >= 1
  /\ \E i, j, k \in 1..Len(frames[1]) :
       /\ i < j /\ j < k
       /\ tape[1][frames[1][i]].speech
       /\ ~tape[1][frames[1][j]].speech
       /\ tape[1][frames[1][k]].speech

FilePcs == {"transcribing", "asr_chat", "loop_body", "loop_brk"} \cup TurnPcs

\* C32: a transcription call is made only right after record_audio has
\* returned the utterance, and the temporary file of an utterance exists
\* only from then until the turn is over.
C32_SubmittedOnceThenDiscarded ==
  [][\A t \in Threads :
       /\ (pc'[t] = "transcribing" /\ pc[t] # "transcribing") =>
            (pc[t] = "rec_returned" /\ audio[t] # None /\ audio[t] # TempFile)
       /\ audio'[t] = TempFile => pc'[t] \in FilePcs]_vars

\* A turn has run on a transcript (it left an actuator thread behind), its
\* temporary file is gone and the loop is about to record again.
C32_Witness ==
  \E t \in Threads :
    /\ pc[t] = "rec_begin"
    /\ orphan[t]
    /\ audio[t] = None

\* C33: when the device opens at a rate the classifier accepts, the stream
\* of a loop thread is open at a rate the classifier accepts.
C33_ClassifierRate ==
  \A t \in Threads :
    (pc[t] \in StreamPcs /\ GetSupportedSampleRates \cap VadRates # {}) =>
      sample_rate[t] \in VadRates

\* C34: a recording that ended by cancellation, by a read error or by an
\* exception is not followed by a new recording as if no speech had been
\* detected.
C34_OutcomeDistinguished ==
  [][\A t \in Threads :
       (pc[t] = "rec_returned" /\ endedBy[t] \in {"cancel", "ioerror", "exception"}) =>
         pc'[t] # "rec_begin"]_vars

\* C35: the streaming backend passes on only final results whose text is
\* not empty: every transcript it has printed is non-empty, and was the text
\* of a final result.
C35_OnlyFinalNonEmptyEmitted ==
  \A i \in 1..Len(emitted) : emitted[i] # << >>

\* C35: a final result with empty text has been printed.
C35_EmptyFinalEmitted ==
  /\ responses = << >>
  /\ emitted = <<Hello, << >>>>

\* C36: of the start_interaction calls that run concurrently on an idle
\* controller at most one returns 'started' and at most one interaction_loop
\* thread is created.
C36_OneStartWins ==
  /\ Cardinality({c \in Callers : start_ret[c] = "started"}) <= 1
  /\ Cardinality({t \in Threads : pc[t] # "none"}) <= 1

\* C36: both requests have returned 'started' and two loops run.
C36_TwoStarted ==
  /\ \A c \in Callers : start_ret[c] = "started"
  /\ \A t \in Threads : Alive(t)

\* C37: once the stop_interaction that cancelled a loop has returned, that
\* loop starts no reasoning dispatch, no playback and no actuator command.
C37_CancelledLoopStartsNothing ==
  [][\A t \in Threads :
       (cancelReq[t] /\ ctl_pc = "idle") =>
         /\ ~(pc'[t] \in ReasoningPcs /\ pc[t] \notin ReasoningPcs)
         /\ ~(pc'[t] = "play" /\ pc[t] # "play")
         /\ ~(mv'[t] = "running" /\ mv[t] # "running")]_vars

\* C38: from the return of stop_interaction to the next start_interaction
\* the LED shows the idle colour.
C38_IdleSignalAfterStop ==
  (~interaction_active /\ ctl_pc = "idle") => led = "cyan"

\* C39: from the first interrupt signal until main() exits should_exit stays
\* true, and an interrupt signal that follows the first ends the process.
C39_ShutdownRequestKept ==
  /\ [](signalled /\ Running => should_exit)
  /\ [][(SignalHandler /\ signalled) => main_pc' = "forced"]_vars

\* C40: in the Google backend a set_stop_recording call made at any moment
\* of transcribe_speech before record_audio returns makes record_audio
\* return no audio.
C40_GoogleCancelNeverLost ==
  [][(GRecFinish(1) /\ cancelReq[1]) => audio'[1] = None]_vars

====
